---- MODULE Spec2Model ----
(***************************************************************************)
(* Verification model of the opencode-vibe event synchronisation core:     *)
(* the ordered store, the reconciliation queue of useSubagentSync, the     *)
(* status derivers (useSessionStatus, useMultiDirectoryStatus), the merged *)
(* world stream, server discovery and the SSE connection manager.          *)
(*                                                                         *)
(* Every component has its own variables and its own specification         *)
(* (SpecStore, SpecSync, ...); the variables of the other components keep  *)
(* their initial value under it.                                           *)
(***************************************************************************)
EXTENDS Integers, Sequences, FiniteSets, TLC

VARIABLES
    messages,      \* store: state.messages of handleSSEEvent, sorted by id
    rawMessages,   \* SessionLayout: rawMessages React state
    storeLast,     \* history: what the last handleSSEEvent call did
    \* ---- useSubagentSync
    stateRef,             \* stateRef.current is set (subagents.create() resolved)
    registered,           \* the sessions subagents.getSessions() reports
    messageToSessionMap,  \* messageID -> sessionID, NoSession when absent
    pendingParts,         \* messageID -> parts queued for it, in arrival order
    inflight,             \* getSessions() promises whose .then has not run yet
    dispatched,           \* the calls made to the subagents API, in order
    nEvents,              \* number of events delivered to onEvent so far
    arrived,              \* history: the part events handlePartEvent received
    lastMsg,              \* history: the last message event fully processed
    lastIgnored,          \* history: id of the last message whose event was
                          \* dropped because its session was not registered
    \* ---- useSessionStatus
    ssMounted,     \* the hook is mounted
    ssFetch,       \* sessions.get() of the mount effect has not settled yet
    ssRunning,     \* running (React state)
    ssIsLoading,   \* isLoading (React state)
    ssStatus,      \* status (React state): "undefined" or "error"
    ssTimer,       \* cooldownTimerRef: NoTimer, or the ticks left until it fires
    ssDropBy,      \* history: the step that last turned running from true to false
    ssCancelled,   \* history: ticks left of the timer the last busy event cancelled
    ssSinceIdle,   \* history: ticks elapsed since the last idle event (capped)
    ssPending,     \* history: setTimeout callbacks neither cleared nor fired
    ssDropAfter,   \* history: ssSinceIdle when running last turned false
    \* ---- createMergedWorldStream
    msSources,     \* the sources passed in: availability, event count, failure
    msChecked,     \* per source: "unchecked", "subscribed", "excluded" or "ended"
    msPos,         \* per source: number of its events emitted so far
    msOut,         \* the events the merged stream has emitted, in order
    msStatus,      \* "live", "done", "failed" or "disposed"
    msError,       \* the source whose error failed the merged stream, 0 if none
    msDisposals,   \* history: calls of dispose() so far, counted up to 2
    \* ---- server discovery and useServers
    dsProbe,       \* per candidate port: "waiting", "inflight", "found", "null"
    dsOutcome,     \* discover(): "pending", "resolved" or "rejected"
    dsResult,      \* the list discover() resolved with
    dsSilent,      \* history: the ports whose probe of this scan never answered
    usServerList,  \* useServers: servers (React state)
    usLoading,     \* useServers: loading
    usError,       \* useServers: error is set
    \* ---- connection manager: useSSE and connectWithRetry
    cnVariant,     \* which implementation runs: "mobile", "provider", "router",
                   \* "retry" or "web"
    cnMounted,     \* the owning component is mounted
    cnEs,          \* the current EventSource: "none", "connecting", "open", "closed"
    cnConnected,   \* connected (React state)
    cnError,       \* the error state is set, or connectWithRetry has thrown
    cnAttempt,     \* attemptRef.current / retryCount.current / attempt
    cnRefTimer,    \* the timeout held in reconnectTimeoutRef is still pending
    cnPending,     \* number of scheduled reconnect timeouts that have not fired
    cnDelays,      \* history: the delays scheduled since the last successful open
    cnOpened,      \* history: some connection has opened
    cnFailedBefore,\* history: failures that preceded the last successful open
    cnOrphans,     \* EventSources no variable refers to any more that were
                   \* never closed: how many are connecting, how many are open
    cnTrigger,     \* history: what called connect() last
    cnOverlap,     \* history: connect() ran while a connection was open or in flight
    \* ---- deriveSessionStatus and useMultiDirectoryStatus
    dirSessionStatus,  \* store: directories[Directory].sessionStatus
    dirMessages,       \* store: directories[Directory].messages, per session
    dirParts,          \* store: directories[Directory].parts, per message id
    mdMounted,         \* useMultiDirectoryStatus is mounted
    mdBoot,            \* per session: its bootstrap request is in flight
    sessionStatuses,   \* sessionStatuses (React state): the visible status
    cooldownTimers,    \* cooldownTimersRef: per session NoTimer or ticks left
    mdPending,         \* history: setTimeout callbacks neither cleared nor fired
    mdUpdates,         \* number of store updates so far
    mdLast,            \* history: what deriveSessionStatus last returned to
                       \* the subscriber, per session
    mdLate,            \* history: a cooldown callback ran after unmount
    mdCleared,         \* history: timers that were pending when the hook unmounted
    mdCall,            \* history: the last direct call of deriveSessionStatus
    \* ---- OpenCodeProvider
    pvSessions,    \* store.sessions, sorted by id
    pvMessages,    \* store.messages: per sessionID the messages, sorted by id
    pvLast,        \* history: the last event delivered to handleEvent
    pvBefore,      \* history: the collection that event is about, before it
    pvEvents,      \* number of events delivered so far
    \* ---- useSSE of the web app
    wsState,       \* state: "connecting", "connected", "disconnected", "error"
    wsSubscribers, \* subscribersRef: the handlers in the order of subscription
    wsLast,        \* history: the last broadcast (type, handlers matching and
                   \* called, exceptions caught, state after it)
    wsCaughtBefore,\* history: an exception was caught in an earlier broadcast
    wsEvents,      \* number of events the stream has delivered so far
    \* ---- the fetch hooks useSession, useSessionList and useParts
    fhHook,        \* which of the three hooks this is
    fhData,        \* session / sessions / parts: the request whose response is
                   \* shown, 0 for the initial or the emptied value
    fhLoading,     \* loading
    fhError,       \* error: the request whose rejection is shown, 0 for null
    fhInflight,    \* the requests that have not settled
    fhStarted,     \* number of requests started so far; the last one is the
                   \* request for the current options
    \* ---- useCompactionState
    csState,       \* state: isCompacting, isAutomatic, progress, startedAt
    csLast,        \* history: type and sessionID of the last event received
    csEvents       \* number of events received so far

storeVars == <<messages, rawMessages, storeLast>>
syncVars == <<stateRef, registered, messageToSessionMap, pendingParts, inflight,
              dispatched, nEvents, arrived, lastMsg, lastIgnored>>

ssVars == <<ssMounted, ssFetch, ssRunning, ssIsLoading, ssStatus, ssTimer,
            ssDropBy, ssCancelled, ssSinceIdle, ssPending, ssDropAfter>>

msVars == <<msSources, msChecked, msPos, msOut, msStatus, msError, msDisposals>>

dsVars == <<dsProbe, dsOutcome, dsResult, dsSilent, usServerList, usLoading,
           usError>>

cnVars == <<cnVariant, cnMounted, cnEs, cnConnected, cnError, cnAttempt,
            cnRefTimer, cnPending, cnDelays, cnOpened, cnFailedBefore,
            cnOrphans, cnTrigger, cnOverlap>>

mdVars == <<dirSessionStatus, dirMessages, dirParts, mdMounted, mdBoot,
            sessionStatuses, cooldownTimers, mdPending, mdUpdates, mdLast,
            mdLate, mdCleared, mdCall>>

pvVars == <<pvSessions, pvMessages, pvLast, pvBefore, pvEvents>>

wsVars == <<wsState, wsSubscribers, wsLast, wsCaughtBefore, wsEvents>>

\* the hooks of the web app and of packages/react that stand alone
fhVars == <<fhHook, fhData, fhLoading, fhError, fhInflight, fhStarted>>

csVars == <<csState, csLast, csEvents>>

hkVars == <<wsVars, fhVars, csVars>>

\* what the actions of one component leave alone
notStoreVars ==
    <<syncVars, ssVars, msVars, dsVars, cnVars, mdVars, pvVars, hkVars>>
notSyncVars ==
    <<storeVars, ssVars, msVars, dsVars, cnVars, mdVars, pvVars, hkVars>>
notSSVars ==
    <<storeVars, syncVars, msVars, dsVars, cnVars, mdVars, pvVars, hkVars>>
notMSVars ==
    <<storeVars, syncVars, ssVars, dsVars, cnVars, mdVars, pvVars, hkVars>>
notDSVars ==
    <<storeVars, syncVars, ssVars, msVars, cnVars, mdVars, pvVars, hkVars>>
notCnVars ==
    <<storeVars, syncVars, ssVars, msVars, dsVars, mdVars, pvVars, hkVars>>
notMdVars ==
    <<storeVars, syncVars, ssVars, msVars, dsVars, cnVars, pvVars, hkVars>>
notPvVars ==
    <<storeVars, syncVars, ssVars, msVars, dsVars, cnVars, mdVars, hkVars>>

notHkVars ==
    <<storeVars, syncVars, ssVars, msVars, dsVars, cnVars, mdVars, pvVars>>
notWsVars == <<notHkVars, fhVars, csVars>>
notFhVars == <<notHkVars, wsVars, csVars>>
notCsVars == <<notHkVars, wsVars, fhVars>>

vars == <<storeVars, syncVars, ssVars, msVars, dsVars, cnVars, mdVars, pvVars,
          hkVars>>

(***************************************************************************)
(* Bounds                                                                  *)
(***************************************************************************)
MaxId == 3
\* message ids seen by useSubagentSync
MaxMsg == 2
\* events delivered to the onEvent callback of useSubagentSync in one run
MaxEvents == 3
\* the cooldown period (cooldownMs) in clock ticks
CooldownTicks == 2
\* sources handed to createMergedWorldStream, and events one source emits
MaxSources == 2
MaxSourceEvents == 2
\* candidate ports probed by one discovery scan
MaxPorts == 5
\* consecutive connection failures followed in one run, and reconnect
\* timeouts that may be pending at the same time
MaxAttempt == 6
MaxTimers == 2
\* EventSources that may be left behind unclosed
MaxOrphans == 2
\* store updates followed while useMultiDirectoryStatus is in use
MaxStoreUpdates == 2
\* session and message ids OpenCodeProvider sees, and events delivered to it
MaxProviderId == 2
MaxProviderEvents == 2
\* handlers subscribed to useSSE at a time, and events its stream delivers
MaxHandlers == 3
MaxSseEvents == 2
\* requests a fetch hook starts (the mount, changes of options, refetch calls)
MaxFetches == 3
\* events delivered to useCompactionState
MaxCompactionEvents == 3

Ids == 1..MaxId
\* the contents an event can carry for an id (two distinguishable revisions)
Contents == {"a", "b"}

Min(a, b) == IF a < b THEN a ELSE b

(***************************************************************************)
(* Ordered store                                                           *)
(***************************************************************************)
Item(i, c) == [id |-> i, body |-> c]

\* Binary.search(array, id): {found, index}; the positions are 1-based here,
\* index is the position of the entry when found and the insertion point
\* (the first position whose id is greater) when not.
RECURSIVE BinarySearchFrom(_, _, _, _)
BinarySearchFrom(array, id, lo, hi) ==
    IF lo > hi THEN [found |-> FALSE, index |-> lo]
    ELSE LET mid == (lo + hi) \div 2
         IN  IF array[mid].id = id THEN [found |-> TRUE, index |-> mid]
             ELSE IF array[mid].id < id
                  THEN BinarySearchFrom(array, id, mid + 1, hi)
                  ELSE BinarySearchFrom(array, id, lo, mid - 1)

BinarySearch(array, id) == BinarySearchFrom(array, id, 1, Len(array))

\* array.splice(index, 0, item), index 1-based
SpliceAt(array, index, item) ==
    SubSeq(array, 1, index - 1) \o <<item>> \o SubSeq(array, index, Len(array))

\* mutant: the new entry is pushed at the end instead of spliced at the index
StoreInsertPush(array, info) ==
    LET r == BinarySearch(array, info.id)
    IN  IF r.found THEN [array EXCEPT ![r.index] = info]
        ELSE Append(array, info)

\* mutant: an entry that is found is left as it was
StoreInsertKeepOld(array, info) ==
    LET r == BinarySearch(array, info.id)
    IN  IF r.found THEN array
        ELSE SpliceAt(array, r.index, info)

\* the body of handleSSEEvent: update in place when found, splice in otherwise
StoreInsert(array, info) ==
    LET r == BinarySearch(array, info.id)
    IN  IF r.found THEN [array EXCEPT ![r.index] = info]
        ELSE SpliceAt(array, r.index, info)

HandleSSEEvent(info) ==
    /\ messages' = StoreInsert(messages, info)
    /\ storeLast' = [op     |-> IF \E k \in 1..Len(messages) : messages[k].id = info.id
                                THEN "update" ELSE "insert",
                     info   |-> info,
                     before |-> messages]
    /\ UNCHANGED rawMessages
    /\ UNCHANGED notStoreVars

\* Array.prototype.sort with the comparator a.info.id.localeCompare(b.info.id):
\* a stable sort by id (insertion of each element after the entries not greater)
RECURSIVE SortById(_)
SortById(array) ==
    IF Len(array) <= 1 THEN array
    ELSE LET rest == SortById(SubSeq(array, 1, Len(array) - 1))
             x    == array[Len(array)]
             le   == SelectSeq(rest, LAMBDA y : y.id <= x.id)
             gt   == SelectSeq(rest, LAMBDA y : y.id > x.id)
         IN  le \o <<x>> \o gt

\* the updater passed to setRawMessages by SessionLayout on message.updated
RawMessagesUpdate(prev, info) ==
    IF \E k \in 1..Len(prev) : prev[k].id = info.id
    THEN [k \in 1..Len(prev) |-> IF prev[k].id = info.id THEN info ELSE prev[k]]
    ELSE SortById(Append(prev, info))

\* the message.updated subscriber of SessionLayout; forUs: the event passes the
\* directory filter and carries the session id of this layout
SessionLayoutMessageUpdated(info, forUs) ==
    /\ rawMessages' = IF forUs THEN RawMessagesUpdate(rawMessages, info)
                      ELSE rawMessages
    /\ UNCHANGED <<messages, storeLast>>
    /\ UNCHANGED notStoreVars


(***************************************************************************)
(* Reconciliation queue: useSubagentSync                                   *)
(***************************************************************************)
MsgIds == 1..MaxMsg
SessionIds == {"s1", "s2"}
NoSession == "none"

\* a part event's payload; ev numbers the event that carried it
Part(m, n) == [messageID |-> m, ev |-> n]
Message(m, s) == [id |-> m, sessionID |-> s]
Call(op, s, m, n) == [op |-> op, sessionID |-> s, messageID |-> m, ev |-> n]

\* the for-loop of flushPendingParts: one addPart per queued part, in order
FlushCalls(pending, sessionId) ==
    [k \in 1..Len(pending) |->
        Call("addPart", sessionId, pending[k].messageID, pending[k].ev)]

\* flushPendingParts(messageId, sessionId): pair of the calls made and the new queue
FlushPendingParts(queue, messageId, sessionId) ==
    IF queue[messageId] # <<>> /\ stateRef
    THEN [calls |-> FlushCalls(queue[messageId], sessionId),
          queue |-> [queue EXCEPT ![messageId] = <<>>]]
    ELSE [calls |-> <<>>, queue |-> queue]

\* handlePartEvent(part, isUpdate)
HandlePartEvent(part, isUpdate) ==
    LET sessionID == messageToSessionMap[part.messageID]
    IN  /\ arrived' = Append(arrived, [ev |-> part.ev, messageID |-> part.messageID,
                                       isUpdate |-> isUpdate,
                                       hadSession |-> sessionID # NoSession,
                                       msgSeen |-> FALSE])
        /\ IF sessionID # NoSession /\ stateRef
           THEN /\ dispatched' = Append(dispatched,
                      Call(IF isUpdate THEN "updatePart" ELSE "addPart",
                           sessionID, part.messageID, part.ev))
                /\ UNCHANGED pendingParts
           ELSE /\ pendingParts' = [pendingParts EXCEPT
                      ![part.messageID] = Append(@, part)]
                /\ UNCHANGED dispatched

\* subagents.create().then(ref => stateRef.current = ref)
CreateResolved ==
    /\ ~stateRef
    /\ stateRef' = TRUE
    /\ UNCHANGED <<registered, messageToSessionMap, pendingParts, inflight,
                   dispatched, nEvents, arrived, lastMsg, lastIgnored>>
    /\ UNCHANGED notSyncVars

\* subagents.registerSubagent(): the session is reported by getSessions from now on
RegisterSubagent(s) ==
    /\ s \notin registered
    /\ registered' = registered \cup {s}
    /\ UNCHANGED <<stateRef, messageToSessionMap, pendingParts, inflight,
                   dispatched, nEvents, arrived, lastMsg, lastIgnored>>
    /\ UNCHANGED notSyncVars

\* onEvent for message.created / message.updated: getSessions() is called and
\* the rest of the branch runs in its .then
OnMessageEvent(type, m, s, dirOk) ==
    /\ nEvents < MaxEvents
    /\ nEvents' = nEvents + 1
    /\ IF stateRef /\ dirOk
       THEN inflight' = Append(inflight, [type |-> type, message |-> Message(m, s)])
       ELSE UNCHANGED inflight
    /\ UNCHANGED <<stateRef, registered, messageToSessionMap, pendingParts,
                   dispatched, arrived, lastMsg, lastIgnored>>
    /\ UNCHANGED notSyncVars

\* onEvent for message.part.created / message.part.updated
OnPartEvent(isUpdate, m, dirOk) ==
    /\ nEvents < MaxEvents
    /\ nEvents' = nEvents + 1
    /\ IF stateRef /\ dirOk
       THEN HandlePartEvent(Part(m, nEvents + 1), isUpdate)
       ELSE UNCHANGED <<pendingParts, dispatched, arrived>>
    /\ UNCHANGED <<stateRef, registered, messageToSessionMap, inflight, lastMsg,
                   lastIgnored>>
    /\ UNCHANGED notSyncVars

\* the part events of message m received so far and not dispatched yet
Undispatched(m) ==
    SelectSeq(arrived, LAMBDA a :
        /\ a.messageID = m
        /\ \A k \in 1..Len(dispatched) : dispatched[k].ev # a.ev)

\* mutant: every session passes the filter
AnySession(sessions, sessionID) == TRUE

\* sessions[message.sessionID]: getSessions() reports the session
IsRegistered(sessions, sessionID) == sessionID \in sessions

\* the .then callback of getSessions() for the oldest pending message event
GetSessionsResolved ==
    /\ inflight # <<>>
    /\ LET type    == Head(inflight).type
           message == Head(inflight).message
           flush   == IF type = "message.created"
                      THEN FlushPendingParts(pendingParts, message.id, message.sessionID)
                      ELSE [calls |-> <<>>, queue |-> pendingParts]
       IN  /\ inflight' = Tail(inflight)
           /\ IF ~IsRegistered(registered, message.sessionID)
              THEN /\ lastIgnored' = message.id
                   /\ UNCHANGED <<messageToSessionMap, pendingParts, dispatched,
                                  arrived, lastMsg>>
              ELSE /\ UNCHANGED lastIgnored
                   /\ messageToSessionMap' =
                        [messageToSessionMap EXCEPT ![message.id] = message.sessionID]
                   /\ dispatched' =
                        Append(dispatched,
                               Call(IF type = "message.created"
                                    THEN "addMessage" ELSE "updateMessage",
                                    message.sessionID, message.id, 0))
                        \o flush.calls
                   /\ pendingParts' = flush.queue
                   /\ arrived' = [k \in 1..Len(arrived) |->
                        IF arrived[k].messageID = message.id
                        THEN [arrived[k] EXCEPT !.msgSeen = TRUE] ELSE arrived[k]]
                   /\ lastMsg' = [type |-> type, message |-> message,
                                  expect |-> Undispatched(message.id),
                                  got |-> flush.calls]
    /\ UNCHANGED <<stateRef, registered, nEvents>>
    /\ UNCHANGED notSyncVars

SyncInit ==
    /\ stateRef = FALSE
    /\ registered = {}
    /\ messageToSessionMap = [m \in MsgIds |-> NoSession]
    /\ pendingParts = [m \in MsgIds |-> <<>>]
    /\ inflight = <<>>
    /\ dispatched = <<>>
    /\ nEvents = 0
    /\ arrived = <<>>
    /\ lastMsg = [type |-> "none", message |-> Message(0, NoSession),
                  expect |-> <<>>, got |-> <<>>]
    /\ lastIgnored = 0

NextSync ==
    \/ CreateResolved
    \/ \E s \in SessionIds : RegisterSubagent(s)
    \/ \E type \in {"message.created", "message.updated"}, m \in MsgIds,
          s \in SessionIds, dirOk \in BOOLEAN : OnMessageEvent(type, m, s, dirOk)
    \/ \E isUpdate \in BOOLEAN, m \in MsgIds, dirOk \in BOOLEAN :
          OnPartEvent(isUpdate, m, dirOk)
    \/ GetSessionsResolved


(***************************************************************************)
(* Status deriver: useSessionStatus                                        *)
(***************************************************************************)
NoTimer == -1

\* mutant: the clock never brings a timer closer to firing
FrozenTimer(t) == t

\* a pending timer comes one tick closer to firing
TickTimer(t) == IF t > 0 THEN t - 1 ELSE t

\* the .then / .catch / .finally of sessions.get() in fetch()
SSFetchResolved(outcome) ==
    /\ ssFetch
    /\ ssFetch' = FALSE
    /\ IF ssMounted
       THEN /\ ssRunning' = FALSE
            /\ ssStatus' = IF outcome = "rejected" THEN "error" ELSE "undefined"
            /\ ssIsLoading' = FALSE
            /\ ssDropBy' = IF ssRunning THEN "fetch" ELSE ssDropBy
            /\ ssDropAfter' = IF ssRunning THEN ssSinceIdle ELSE ssDropAfter
       ELSE UNCHANGED <<ssRunning, ssStatus, ssIsLoading, ssDropBy, ssDropAfter>>
    /\ UNCHANGED <<ssMounted, ssTimer, ssCancelled, ssSinceIdle, ssPending>>
    /\ UNCHANGED notSSVars

\* if (cooldownTimerRef.current) clearTimeout(cooldownTimerRef.current):
\* the number of pending callbacks afterwards
ClearTimeout(timer, pending) == IF timer # NoTimer THEN pending - 1 ELSE pending

\* mutant: the idle branch starts its timer without clearing the previous one
KeepTimeout(timer, pending) == pending

\* the clearTimeout of the idle branch
IdleClearTimeout(timer, pending) == ClearTimeout(timer, pending)

\* handleEvent(event): type is the payload type, forUs says whether
\* props.sessionID is options.sessionId, statusType is props.status.type
SSHandleEvent(type, forUs, statusType) ==
    /\ ssMounted
    /\ IF type # "session.status" \/ ~forUs
       THEN UNCHANGED <<ssRunning, ssTimer, ssCancelled, ssSinceIdle, ssPending>>
       ELSE IF statusType = "busy"
            THEN /\ ssTimer' = NoTimer
                 /\ ssPending' = ClearTimeout(ssTimer, ssPending)
                 /\ ssRunning' = TRUE
                 /\ ssCancelled' = IF ssTimer # NoTimer THEN ssTimer ELSE ssCancelled
                 /\ UNCHANGED ssSinceIdle
            ELSE /\ ssTimer' = CooldownTicks
                 /\ ssPending' = IdleClearTimeout(ssTimer, ssPending) + 1
                 /\ ssCancelled' = NoTimer
                 /\ ssSinceIdle' = 0
                 /\ UNCHANGED ssRunning
    /\ UNCHANGED <<ssMounted, ssFetch, ssIsLoading, ssStatus, ssDropBy, ssDropAfter>>
    /\ UNCHANGED notSSVars

\* the setTimeout callback of the idle branch
SSTimerFired ==
    /\ ssTimer = 0
    /\ ssRunning' = FALSE
    /\ ssTimer' = NoTimer
    /\ ssDropBy' = IF ~ssRunning THEN ssDropBy
                   ELSE IF ssCancelled # NoTimer THEN "interrupted timer"
                   ELSE "timer"
    /\ ssDropAfter' = IF ssRunning THEN ssSinceIdle ELSE ssDropAfter
    /\ ssPending' = ssPending - 1
    /\ UNCHANGED <<ssMounted, ssFetch, ssIsLoading, ssStatus, ssCancelled, ssSinceIdle>>
    /\ UNCHANGED notSSVars

\* the cleanup of the mount effect: clearTimeout(cooldownTimerRef.current)
SSUnmount ==
    /\ ssMounted
    /\ ssMounted' = FALSE
    /\ ssTimer' = NoTimer
    /\ ssPending' = ClearTimeout(ssTimer, ssPending)
    /\ UNCHANGED <<ssFetch, ssRunning, ssIsLoading, ssStatus, ssDropBy,
                   ssCancelled, ssSinceIdle, ssDropAfter>>
    /\ UNCHANGED notSSVars

\* one tick of the clock; a timer that is due fires before the clock moves on
SSTick ==
    /\ ssTimer # 0
    /\ ssTimer' = TickTimer(ssTimer)
    /\ ssCancelled' = TickTimer(ssCancelled)
    /\ ssSinceIdle' = Min(ssSinceIdle + 1, CooldownTicks + 1)
    /\ UNCHANGED <<ssMounted, ssFetch, ssRunning, ssIsLoading, ssStatus, ssDropBy,
                   ssPending, ssDropAfter>>
    /\ UNCHANGED notSSVars

SSInit ==
    /\ ssMounted = TRUE
    /\ ssFetch = TRUE
    /\ ssRunning = FALSE
    /\ ssIsLoading = TRUE
    /\ ssStatus = "undefined"
    /\ ssTimer = NoTimer
    /\ ssDropBy = "none"
    /\ ssCancelled = NoTimer
    /\ ssSinceIdle = CooldownTicks + 1
    /\ ssPending = 0
    /\ ssDropAfter = CooldownTicks + 1

NextSessionStatus ==
    \/ \E outcome \in {"session", "null", "rejected"} : SSFetchResolved(outcome)
    \/ \E type \in {"session.status", "message.updated"}, forUs \in BOOLEAN,
          statusType \in {"busy", "idle"} : SSHandleEvent(type, forUs, statusType)
    \/ SSTimerFired
    \/ SSUnmount
    \/ SSTick


(***************************************************************************)
(* Merged stream: createMergedWorldStream                                  *)
(***************************************************************************)
\* the sources handed to createMergedWorldStream({sources}): an array of any
\* length, the empty one included
SourceNames == DOMAIN msSources

\* createMockSource(name, events, isAvailable) and the failing sources of the
\* tests: available is "true", "false" or "throws"; the stream emits
\* count events and then ends, or raises an error when fails is set
MockSources ==
    [available : {"true", "false", "throws"},
     count     : 0..MaxSourceEvents,
     fails     : BOOLEAN]

\* the k-th event of a source, tagged with the source's name
SourceEvent(name, k) == [source |-> name, sequence |-> k]

\* mutant: a source is subscribed whatever its availability check says
MSAvailableAlways(src) == TRUE

\* mutant: only a check that returned false excludes the source
MSAvailableUnlessFalse(src) == msSources[src].available # "false"

\* mutant: only a check that throws excludes the source
MSAvailableUnlessThrows(src) == msSources[src].available # "throws"

\* the availability check at the boundary: a thrown error counts as false
MSAvailable(src) == msSources[src].available = "true"

\* step 1 and 2: evaluate available() of one source, subscribe when it holds
MSCheckAvailable(src) ==
    /\ msStatus = "live"
    /\ msChecked[src] = "unchecked"
    /\ msChecked' = [msChecked EXCEPT
          ![src] = IF MSAvailable(src) THEN "subscribed" ELSE "excluded"]
    /\ UNCHANGED <<msSources, msPos, msOut, msStatus, msError, msDisposals>>
    /\ UNCHANGED notMSVars

\* mutant: the newest event is put in front of the merged sequence
MSMergeFront(out, event) == <<event>> \o out

\* the merged sequence after one more event has arrived
MSMerge(out, event) == Append(out, event)

\* step 3: a subscribed source delivers its next event, which is emitted
MSEmit(src) ==
    /\ msStatus = "live"
    /\ \A other \in SourceNames : msChecked[other] # "unchecked"
    /\ msChecked[src] = "subscribed"
    /\ msPos[src] < msSources[src].count
    /\ msPos' = [msPos EXCEPT ![src] = @ + 1]
    /\ msOut' = MSMerge(msOut, SourceEvent(src, msPos[src] + 1))
    /\ UNCHANGED <<msSources, msChecked, msStatus, msError, msDisposals>>
    /\ UNCHANGED notMSVars

\* mutant: the error of one source is kept from the merged stream
MSSettledIsolated(src) == msStatus

\* fail-fast: the error of one source fails the merged stream
MSSettledStatus(src) == IF msSources[src].fails THEN "failed" ELSE msStatus

\* a subscribed source's stream ends, or (step 5) raises an error, which fails
\* the merged stream
MSSourceSettles(src) ==
    /\ msStatus = "live"
    /\ \A other \in SourceNames : msChecked[other] # "unchecked"
    /\ msChecked[src] = "subscribed"
    /\ msPos[src] = msSources[src].count
    /\ msChecked' = [msChecked EXCEPT ![src] = "ended"]
    /\ msStatus' = MSSettledStatus(src)
    /\ msError' = IF msSources[src].fails THEN src ELSE msError
    /\ UNCHANGED <<msSources, msPos, msOut, msDisposals>>
    /\ UNCHANGED notMSVars

\* mutant: the merge waits for the end of the excluded sources as well
MSAllEnded(checked) == \A src \in DOMAIN checked : checked[src] = "ended"

\* no source is subscribed any more: each one was excluded or has ended
MSNoneSubscribed(checked) ==
    \A src \in DOMAIN checked : checked[src] \in {"excluded", "ended"}

\* step 4: with no source left subscribed the merged stream completes
MSComplete ==
    /\ msStatus = "live"
    /\ MSNoneSubscribed(msChecked)
    /\ msStatus' = "done"
    /\ UNCHANGED <<msSources, msChecked, msPos, msOut, msError, msDisposals>>
    /\ UNCHANGED notMSVars

\* mutant: dispose() leaves the subscriptions as they are
MSKeepSubscriptions(checked) == checked

\* every active subscription is torn down
MSTearDown(checked) ==
    [src \in DOMAIN checked |->
        IF checked[src] = "subscribed" THEN "ended" ELSE checked[src]]

\* step 6: dispose() tears down every subscription; calling it again is harmless
MSDispose ==
    /\ msStatus' = "disposed"
    /\ msChecked' = MSTearDown(msChecked)
    /\ msDisposals' = Min(msDisposals + 1, 2)
    /\ UNCHANGED <<msSources, msPos, msOut, msError>>
    /\ UNCHANGED notMSVars

MSIdle ==
    /\ msChecked = [src \in SourceNames |-> "unchecked"]
    /\ msPos = [src \in SourceNames |-> 0]
    /\ msOut = <<>>
    /\ msStatus = "live"
    /\ msError = 0
    /\ msDisposals = 0

MSInit ==
    /\ msSources = [src \in 1..MaxSources |->
          [available |-> "true", count |-> 0, fails |-> FALSE]]
    /\ MSIdle

NextMerged ==
    \/ \E src \in SourceNames : MSCheckAvailable(src)
    \/ \E src \in SourceNames : MSEmit(src)
    \/ \E src \in SourceNames : MSSourceSettles(src)
    \/ MSComplete
    \/ MSDispose


(***************************************************************************)
(* Server discovery: the probe route, servers.discover() and useServers    *)
(***************************************************************************)
Ports == 1..MaxPorts

\* Effect.forEach(ports, discoverServer, { concurrency: 4 })
Concurrency == 4

\* the fallback entry: the default local address (localhost:4056), no directory
FallbackServer == [port |-> 0, directory |-> ""]
Server(port) == [port |-> port, directory |-> ""]

InFlight == {port \in Ports : dsProbe[port] = "inflight"}

\* results.filter(Boolean), in the order of the ports
RECURSIVE FoundFrom(_)
FoundFrom(port) ==
    IF port > MaxPorts THEN <<>>
    ELSE (IF dsProbe[port] = "found" THEN <<Server(port)>> ELSE <<>>)
         \o FoundFrom(port + 1)

\* mutant: the list of the reachable servers is returned as it is
DiscoverResultNoFallback(found) == found

\* discover(): the reachable servers, or the fallback entry when there are none
DiscoverResult(found) == IF found = <<>> THEN <<FallbackServer>> ELSE found

\* mutant: a probe may start however many are running
SlotAlways(running) == TRUE

\* { concurrency: 4 }: a probe may start while fewer than Concurrency are running
SlotFree(running) == running < Concurrency

\* Effect.forEach starts the next probe while fewer than Concurrency are running
DSStartProbe(port) ==
    /\ dsOutcome = "pending"
    /\ dsProbe[port] = "waiting"
    /\ \A other \in Ports : other < port => dsProbe[other] # "waiting"
    /\ SlotFree(Cardinality(InFlight))
    /\ dsProbe' = [dsProbe EXCEPT ![port] = "inflight"]
    /\ UNCHANGED <<dsOutcome, dsResult, dsSilent, usServerList, usLoading,
                   usError>>
    /\ UNCHANGED notDSVars

\* mutant: the fetch is not raced against a timeout, a silent probe stays open
DiscoverServerNoTimeout(answer) ==
    IF answer = "ok" THEN "found"
    ELSE IF answer = "timeout" THEN "inflight" ELSE "null"

\* discoverServer(port): the fetch answers ("ok"), rejects ("rejected") or is
\* cut by Effect.timeout ("timeout"); every failure becomes null (Effect.catchAll)
DiscoverServer(answer) == IF answer = "ok" THEN "found" ELSE "null"


DSProbeSettles(port, answer) ==
    /\ dsOutcome = "pending"
    /\ dsProbe[port] = "inflight"
    /\ dsProbe' = [dsProbe EXCEPT ![port] = DiscoverServer(answer)]
    /\ dsSilent' = IF answer = "timeout" THEN dsSilent \cup {port} ELSE dsSilent
    /\ UNCHANGED <<dsOutcome, dsResult, usServerList, usLoading, usError>>
    /\ UNCHANGED notDSVars

\* discover() resolves once every probe has settled
DSResolve ==
    /\ dsOutcome = "pending"
    /\ \A port \in Ports : dsProbe[port] \in {"found", "null"}
    /\ dsOutcome' = "resolved"
    /\ dsResult' = DiscoverResult(FoundFrom(1))
    /\ UNCHANGED <<dsProbe, dsSilent, usServerList, usLoading, usError>>
    /\ UNCHANGED notDSVars

\* total failure of the scan (the probe route cannot be reached): fallback
DSTotalFailure ==
    /\ dsOutcome = "pending"
    /\ dsOutcome' = "resolved"
    /\ dsResult' = DiscoverResult(<<>>)
    /\ UNCHANGED <<dsProbe, dsSilent, usServerList, usLoading, usError>>
    /\ UNCHANGED notDSVars

\* useServers: the .then / .catch / .finally of servers.discover()
UseServersSettled ==
    /\ usLoading
    /\ dsOutcome # "pending"
    /\ usLoading' = FALSE
    /\ IF dsOutcome = "resolved"
       THEN usServerList' = dsResult /\ usError' = FALSE
       ELSE usServerList' = <<>> /\ usError' = TRUE
    /\ UNCHANGED <<dsProbe, dsOutcome, dsResult, dsSilent>>
    /\ UNCHANGED notDSVars

\* useServers: refetch() starts a new scan of the same candidates
UseServersRefetch ==
    /\ ~usLoading
    /\ usLoading' = TRUE
    /\ usError' = FALSE
    /\ dsProbe' = [port \in Ports |-> "waiting"]
    /\ dsOutcome' = "pending"
    /\ dsResult' = <<>>
    /\ dsSilent' = {}
    /\ UNCHANGED usServerList
    /\ UNCHANGED notDSVars

DSIdle ==
    /\ dsProbe = [port \in Ports |-> "waiting"]
    /\ dsOutcome = "pending"
    /\ dsResult = <<>>
    /\ dsSilent = {}
    /\ usServerList = <<>>
    /\ usLoading = TRUE
    /\ usError = FALSE

DSInit == DSIdle

\* one call of discover() and the settling of the useServers that made it
NextScan ==
    \/ \E port \in Ports : DSStartProbe(port)
    \/ \E port \in Ports, answer \in {"ok", "rejected", "timeout"} :
          DSProbeSettles(port, answer)
    \/ DSResolve
    \/ DSTotalFailure
    \/ UseServersSettled

NextDiscover ==
    \/ \E port \in Ports : DSStartProbe(port)
    \/ \E port \in Ports, answer \in {"ok", "rejected", "timeout"} :
          DSProbeSettles(port, answer)
    \/ DSResolve
    \/ DSTotalFailure
    \/ UseServersSettled
    \/ UseServersRefetch

(***************************************************************************)
(* Connection manager: useSSE (mobile guide), useSSE (router ADR, "Before"), *)
(* SSEProvider (mobile guide), connectWithRetry (ADR 002) and useSSE of the  *)
(* web app                                                                 *)
(***************************************************************************)
Variants == {"mobile", "provider", "router", "retry", "web"}

\* the base of the backoff, its ceiling, and the retry limit
MobileBaseDelay == 3000
RouterBaseDelay == 1000
MaxDelay == 30000
maxRetries == 5

BaseDelay ==
    IF cnVariant \in {"mobile", "provider"} THEN MobileBaseDelay
                                            ELSE RouterBaseDelay

\* mutant: the backoff without its ceiling
BackoffUncapped(attempt) == BaseDelay * 2^attempt

\* Math.min(base * 2 ** attempt, 30000)
Backoff(attempt) == Min(BaseDelay * 2^attempt, MaxDelay)

\* mutant: onopen leaves the attempt counter alone
KeepAttempt(attempt) == attempt

\* onopen: attemptRef.current = 0 / retryCount.current = 0
ResetAttempt(attempt) == 0

\* setTimeout(connect, delay); the handle replaces the one kept before, and
\* a timeout that was still pending keeps running
ScheduleReconnect(delay) ==
    /\ cnRefTimer' = TRUE
    /\ cnPending' = cnPending + 1
    /\ cnDelays' = Append(cnDelays, delay)

Live == {"connecting", "open"}

\* connect(): useSSE of the mobile guide closes the EventSource it holds and
\* creates a new one; SSEProvider and useSSE of the router ADR create the new
\* one without closing the old one, which lives on unreferenced
Connect(trigger) ==
    /\ (cnVariant \in {"provider", "router"} /\ cnEs \in Live) =>
          cnOrphans.connecting + cnOrphans.open < MaxOrphans
    /\ cnEs' = "connecting"
    /\ cnTrigger' = trigger
    /\ cnOverlap' = (cnOverlap \/ cnEs \in Live)
    /\ cnOrphans' = IF cnVariant \in {"provider", "router"} /\ cnEs \in Live
                    THEN [cnOrphans EXCEPT ![cnEs] = @ + 1]
                    ELSE cnOrphans

\* es.onopen; for connectWithRetry and the web app's useSSE,
\* client.global.event() resolved
CnOnOpen ==
    /\ cnEs = "connecting"
    /\ cnEs' = "open"
    /\ cnConnected' = IF cnVariant = "retry" THEN cnConnected ELSE TRUE
    /\ cnAttempt' = IF cnVariant \in {"retry", "web"} THEN cnAttempt
                                                   ELSE ResetAttempt(cnAttempt)
    /\ cnDelays' = <<>>
    /\ cnOpened' = TRUE
    /\ cnFailedBefore' = Len(cnDelays)
    /\ UNCHANGED <<cnVariant, cnMounted, cnError, cnRefTimer, cnPending,
                   cnOrphans, cnTrigger, cnOverlap>>
    /\ UNCHANGED notCnVars

\* es.onerror; for connectWithRetry, the catch block of the loop; for the web
\* app's useSSE, the catch block of connect(): setState("error") and no more
CnOnError ==
    /\ cnEs \in {"connecting", "open"}
    /\ cnVariant = "retry" => cnEs = "connecting"
    /\ cnAttempt < MaxAttempt
    /\ cnPending < MaxTimers
    /\ cnEs' = "closed"
    /\ cnConnected' = IF cnVariant = "retry" THEN cnConnected ELSE FALSE
    /\ CASE cnVariant \in {"mobile", "provider"} ->
              /\ ScheduleReconnect(Backoff(cnAttempt))
              /\ cnAttempt' = cnAttempt + 1
              /\ UNCHANGED cnError
         [] cnVariant = "router" ->
              IF cnAttempt < maxRetries
                THEN /\ ScheduleReconnect(Backoff(cnAttempt))
                     /\ cnAttempt' = cnAttempt + 1
                     /\ UNCHANGED cnError
                ELSE /\ cnError' = TRUE
                     /\ UNCHANGED <<cnAttempt, cnRefTimer, cnPending, cnDelays>>
         [] cnVariant = "retry" ->
              /\ cnAttempt' = cnAttempt + 1
              /\ ScheduleReconnect(Backoff(cnAttempt + 1))
              /\ UNCHANGED cnError
         [] cnVariant = "web" ->
              /\ cnError' = TRUE
              /\ UNCHANGED <<cnAttempt, cnRefTimer, cnPending, cnDelays>>
    /\ UNCHANGED <<cnVariant, cnMounted, cnOpened, cnFailedBefore,
                   cnOrphans, cnTrigger, cnOverlap>>
    /\ UNCHANGED notCnVars

\* the web app's useSSE: the for-await loop over events.stream ends
\* gracefully, setState("disconnected"). (An EventSource reports the end of
\* its stream through onerror.)
CnStreamEnded ==
    /\ cnVariant = "web"
    /\ cnEs = "open"
    /\ cnEs' = "closed"
    /\ cnConnected' = FALSE
    /\ UNCHANGED <<cnVariant, cnMounted, cnError, cnAttempt, cnRefTimer,
                   cnPending, cnDelays, cnOpened, cnFailedBefore,
                   cnOrphans, cnTrigger, cnOverlap>>
    /\ UNCHANGED notCnVars

\* onopen of an EventSource that was left behind unclosed (SSEProvider)
CnOrphanOpen ==
    /\ cnOrphans.connecting > 0
    /\ cnOrphans' = [connecting |-> cnOrphans.connecting - 1,
                     open |-> cnOrphans.open + 1]
    /\ cnConnected' = TRUE
    /\ cnAttempt' = ResetAttempt(cnAttempt)
    /\ cnDelays' = <<>>
    /\ cnOpened' = TRUE
    /\ cnFailedBefore' = Len(cnDelays)
    /\ UNCHANGED <<cnVariant, cnMounted, cnEs, cnError, cnRefTimer, cnPending,
                   cnTrigger, cnOverlap>>
    /\ UNCHANGED notCnVars

\* onerror of an EventSource that was left behind unclosed: es?.close() closes
\* the EventSource the variable holds now, not the failing one, which the
\* browser either gives up (fatal) or connects again
CnOrphanError(state, fatal) ==
    /\ cnOrphans[state] > 0
    /\ cnAttempt < MaxAttempt
    /\ cnPending < MaxTimers
    /\ cnOrphans' =
          IF fatal THEN [cnOrphans EXCEPT ![state] = @ - 1]
          ELSE [[cnOrphans EXCEPT ![state] = @ - 1] EXCEPT !.connecting = @ + 1]
    /\ cnConnected' = FALSE
    /\ cnEs' = IF cnEs = "none" THEN "none" ELSE "closed"
    /\ ScheduleReconnect(Backoff(cnAttempt))
    /\ cnAttempt' = cnAttempt + 1
    /\ UNCHANGED <<cnVariant, cnMounted, cnError, cnOpened, cnFailedBefore,
                   cnTrigger, cnOverlap>>
    /\ UNCHANGED notCnVars

\* a reconnect timeout fires and runs connect(): the previous EventSource is
\* closed and a new one is created; connectWithRetry rethrows after its last
\* delay instead
CnTimerFired ==
    /\ cnPending > 0
    /\ \E held \in BOOLEAN :
          /\ held => cnRefTimer
          /\ ~held => cnPending > (IF cnRefTimer THEN 1 ELSE 0)
          /\ cnRefTimer' = IF held THEN FALSE ELSE cnRefTimer
    /\ cnPending' = cnPending - 1
    /\ IF cnVariant = "retry" /\ cnAttempt >= maxRetries
         THEN cnError' = TRUE /\ UNCHANGED <<cnEs, cnOrphans, cnTrigger, cnOverlap>>
         ELSE Connect("timer") /\ UNCHANGED cnError
    /\ UNCHANGED <<cnVariant, cnMounted, cnConnected, cnAttempt, cnDelays,
                   cnOpened, cnFailedBefore>>
    /\ UNCHANGED notCnVars

\* handleVisibility: the page becomes visible while not connected. In
\* SSEProvider the handler is created by an effect that depends on the
\* directory alone, so the connected it reads is the false of the first render
CnVisibility ==
    /\ cnVariant \in {"mobile", "provider"}
    /\ cnMounted
    /\ cnVariant = "mobile" => ~cnConnected
    /\ Connect("visibility")
    /\ UNCHANGED <<cnVariant, cnMounted, cnConnected, cnError, cnAttempt,
                   cnRefTimer, cnPending, cnDelays, cnOpened, cnFailedBefore>>
    /\ UNCHANGED notCnVars

\* the cleanup of the mount effect: close the EventSource, clear the timeout;
\* in the web app's useSSE: set unmountedRef, abort, setState("disconnected")
CnUnmount ==
    /\ cnVariant # "retry"
    /\ cnMounted
    /\ cnMounted' = FALSE
    /\ cnEs' = IF cnEs = "none" THEN "none" ELSE "closed"
    /\ cnPending' = IF cnRefTimer THEN cnPending - 1 ELSE cnPending
    /\ cnRefTimer' = FALSE
    /\ cnConnected' = IF cnVariant = "web" THEN FALSE ELSE cnConnected
    /\ UNCHANGED <<cnVariant, cnError, cnAttempt, cnDelays,
                   cnOpened, cnFailedBefore, cnOrphans, cnTrigger, cnOverlap>>
    /\ UNCHANGED notCnVars

\* the state right after the first connect() of the mount effect
CnConnecting ==
    /\ cnMounted = TRUE
    /\ cnEs = "connecting"
    /\ cnConnected = FALSE
    /\ cnError = FALSE
    /\ cnAttempt = 0
    /\ cnRefTimer = FALSE
    /\ cnPending = 0
    /\ cnDelays = <<>>
    /\ cnOpened = FALSE
    /\ cnFailedBefore = 0
    /\ cnOrphans = [connecting |-> 0, open |-> 0]
    /\ cnTrigger = "mount"
    /\ cnOverlap = FALSE

CnInit == cnVariant = "mobile" /\ CnConnecting

NextConn ==
    \/ CnOnOpen
    \/ CnOnError
    \/ CnStreamEnded
    \/ CnOrphanOpen
    \/ \E state \in Live, fatal \in BOOLEAN : CnOrphanError(state, fatal)
    \/ CnTimerFired
    \/ CnVisibility
    \/ CnUnmount

(***************************************************************************)
(* Status deriver: deriveSessionStatus and useMultiDirectoryStatus         *)
(***************************************************************************)
MdSessions == {"ses-1", "ses-2"}
\* message ids, in the order the store keeps them
MdMessageOrder == <<"msg-1", "msg-2">>
MdMessageIds == {MdMessageOrder[k] : k \in DOMAIN MdMessageOrder}
\* the directory the hook watches, and one the store knows nothing about
Directory == "/project"
Directories == {Directory, "/elsewhere"}
Absent == "absent"
\* the SessionStatus type
StatusValues == {"pending", "running", "completed", "error"}
\* role and time.completed of a message
MessageInfos == {[role |-> "user", completed |-> TRUE],
                 [role |-> "assistant", completed |-> FALSE],
                 [role |-> "assistant", completed |-> TRUE]}
NoMessage == [session |-> Absent]
\* type, tool and state.status of a part
PartKinds == {[type |-> "tool", tool |-> "task", status |-> "running"],
              [type |-> "tool", tool |-> "task", status |-> "completed"],
              [type |-> "tool", tool |-> "bash", status |-> "running"]}
PartLists == {<<>>} \cup {<<p>> : p \in PartKinds}
                    \cup {<<p, q>> : p \in PartKinds, q \in PartKinds}
\* the part lists a single part event leaves behind for a new message
SinglePartLists == {parts \in PartLists : Len(parts) <= 1}
Options == [includeSubAgents : BOOLEAN, includeLastMessage : BOOLEAN]
NoCall == [result |-> "none"]

\* the session whose messages array holds message m
Owner(msgs, m) ==
    IF \E s \in MdSessions : \E k \in DOMAIN msgs[s] : msgs[s][k].id = m
    THEN CHOOSE s \in MdSessions : \E k \in DOMAIN msgs[s] : msgs[s][k].id = m
    ELSE Absent

\* the messages map of a store that holds the two messages given
MessagesOf(first, second) ==
    [s \in MdSessions |->
        (IF first.session = s
         THEN <<[id |-> MdMessageOrder[1], role |-> first.info.role,
                 completed |-> first.info.completed]>>
         ELSE <<>>)
        \o (IF second.session = s
            THEN <<[id |-> MdMessageOrder[2], role |-> second.info.role,
                    completed |-> second.info.completed]>>
            ELSE <<>>)]

\* the store state, as deriveSessionStatus and the subscriber receive it
StateOf(status, msgs, prts) ==
    [directories |->
        [d \in {Directory} |->
            [sessionStatus |-> status, messages |-> msgs, parts |-> prts]]]

\* part.type === "tool" && part.tool === "task" && part.state?.status === "running"
IsRunningTask(part) ==
    part.type = "tool" /\ part.tool = "task" /\ part.status = "running"

\* mutant: only the parts of the last message are looked at
LastMessageTaskRunning(dir, sessionId) ==
    LET msgs == dir.messages[sessionId]
    IN  /\ Len(msgs) > 0
        /\ \E j \in DOMAIN dir.parts[msgs[Len(msgs)].id] :
              IsRunningTask(dir.parts[msgs[Len(msgs)].id][j])

\* SOURCE 2: the loops over the messages of the session and their parts
AnyTaskRunning(dir, sessionId) ==
    \E i \in DOMAIN dir.messages[sessionId] :
        \E j \in DOMAIN dir.parts[dir.messages[sessionId][i].id] :
            IsRunningTask(dir.parts[dir.messages[sessionId][i].id][j])

\* SOURCE 3: the last message is an assistant message without time.completed
LastMessageOpen(dir, sessionId) ==
    LET msgs == dir.messages[sessionId]
    IN  /\ Len(msgs) > 0
        /\ msgs[Len(msgs)].role = "assistant"
        /\ ~msgs[Len(msgs)].completed

DeriveSessionStatus(state, sessionId, directory, options) ==
    IF directory \notin DOMAIN state.directories
    THEN "completed"
    ELSE LET dir == state.directories[directory]
             mainStatus == IF dir.sessionStatus[sessionId] = Absent
                           THEN "completed"
                           ELSE dir.sessionStatus[sessionId]
         IN  IF mainStatus = "running" THEN "running"
             ELSE IF options.includeSubAgents /\ AnyTaskRunning(dir, sessionId)
                  THEN "running"
             ELSE IF options.includeLastMessage /\ LastMessageOpen(dir, sessionId)
                  THEN "running"
             ELSE mainStatus

\* a direct call deriveSessionStatus(state, sessionId, directory, options)
MDDerive(sessionId, directory, options) ==
    /\ mdCall = NoCall
    /\ mdCall' = [sessionId |-> sessionId, directory |-> directory,
                  options |-> options,
                  result |-> DeriveSessionStatus(
                                 StateOf(dirSessionStatus, dirMessages, dirParts),
                                 sessionId, directory, options)]
    /\ UNCHANGED <<dirSessionStatus, dirMessages, dirParts, mdMounted, mdBoot,
                   sessionStatuses, cooldownTimers, mdPending, mdUpdates,
                   mdLast, mdLate, mdCleared>>
    /\ UNCHANGED notMdVars

NextDerive ==
    \E sessionId \in MdSessions, directory \in Directories, options \in Options :
        MDDerive(sessionId, directory, options)

\* Object.keys(dirState.sessionStatus) and Object.keys(dirState.messages)
AllSessionIds(status, msgs) ==
    {s \in MdSessions : status[s] # Absent \/ Len(msgs[s]) > 0}

\* what the subscriber derives for a session
StatusValue(status, msgs, prts, sessionId) ==
    DeriveSessionStatus(StateOf(status, msgs, prts), sessionId, Directory,
                        [includeSubAgents |-> TRUE, includeLastMessage |-> FALSE])

\* the callback of useOpencodeStore.subscribe, run with the new store state
Subscriber(status, msgs, prts) ==
    LET ids == AllSessionIds(status, msgs)
        value(s) == StatusValue(status, msgs, prts, s)
        cleared == {s \in ids : /\ value(s) \in {"running", "completed"}
                                /\ cooldownTimers[s] # NoTimer}
        started == {s \in ids : value(s) = "completed"}
    IN  IF ~mdMounted
        THEN UNCHANGED <<sessionStatuses, cooldownTimers, mdPending, mdLast>>
        ELSE /\ sessionStatuses' =
                  [s \in MdSessions |->
                      IF s \in ids /\ value(s) = "running"
                      THEN "running" ELSE sessionStatuses[s]]
             /\ cooldownTimers' =
                  [s \in MdSessions |->
                      IF s \notin ids THEN cooldownTimers[s]
                      ELSE IF value(s) = "running" THEN NoTimer
                      ELSE IF value(s) = "completed" THEN CooldownTicks
                      ELSE cooldownTimers[s]]
             /\ mdPending' = mdPending - Cardinality(cleared) + Cardinality(started)
             /\ mdLast' = [s \in MdSessions |->
                              IF s \in ids THEN value(s) ELSE mdLast[s]]

\* the store records a session status, then notifies its subscribers
MDStatusUpdate(sessionId, status) ==
    /\ mdUpdates < MaxStoreUpdates
    /\ mdUpdates' = mdUpdates + 1
    /\ dirSessionStatus' = [dirSessionStatus EXCEPT ![sessionId] = status]
    /\ Subscriber(dirSessionStatus', dirMessages, dirParts)
    /\ UNCHANGED <<dirMessages, dirParts, mdMounted, mdBoot, mdLate, mdCleared, mdCall>>
    /\ UNCHANGED notMdVars

\* the messages of a session after message id was added or updated
UpsertMessage(msgs, id, info) ==
    LET item == [id |-> id, role |-> info.role, completed |-> info.completed]
    IN  IF \E k \in DOMAIN msgs : msgs[k].id = id
        THEN [k \in DOMAIN msgs |-> IF msgs[k].id = id THEN item ELSE msgs[k]]
        ELSE IF id = MdMessageOrder[1] THEN <<item>> \o msgs
        ELSE msgs \o <<item>>

\* the store adds or updates a message, then notifies its subscribers
MDMessageUpdate(sessionId, id, info) ==
    /\ mdUpdates < MaxStoreUpdates
    /\ Owner(dirMessages, id) \in {Absent, sessionId}
    /\ mdUpdates' = mdUpdates + 1
    /\ dirMessages' = [dirMessages EXCEPT
                          ![sessionId] = UpsertMessage(@, id, info)]
    /\ Subscriber(dirSessionStatus, dirMessages', dirParts)
    /\ UNCHANGED <<dirSessionStatus, dirParts, mdMounted, mdBoot, mdLate, mdCleared, mdCall>>
    /\ UNCHANGED notMdVars

\* the store replaces the parts of a message, then notifies its subscribers
MDPartUpdate(id, parts) ==
    /\ mdUpdates < MaxStoreUpdates
    /\ mdUpdates' = mdUpdates + 1
    /\ dirParts' = [dirParts EXCEPT ![id] = parts]
    /\ Subscriber(dirSessionStatus, dirMessages, dirParts')
    /\ UNCHANGED <<dirSessionStatus, dirMessages, mdMounted, mdBoot, mdLate, mdCleared, mdCall>>
    /\ UNCHANGED notMdVars

\* the store changes outside the watched directory: subscribers are notified
MDOtherUpdate ==
    /\ mdUpdates < MaxStoreUpdates
    /\ mdUpdates' = mdUpdates + 1
    /\ Subscriber(dirSessionStatus, dirMessages, dirParts)
    /\ UNCHANGED <<dirSessionStatus, dirMessages, dirParts, mdMounted, mdBoot,
                   mdLate, mdCleared, mdCall>>
    /\ UNCHANGED notMdVars

\* client.session.messages() of bootstrap() settles for one session;
\* status is deriveBootstrapStatus of the response, "failed" when it threw
MDBootResolved(sessionId, status) ==
    /\ mdBoot[sessionId]
    /\ mdBoot' = [mdBoot EXCEPT ![sessionId] = FALSE]
    /\ sessionStatuses' = IF mdMounted /\ status = "running"
                          THEN [sessionStatuses EXCEPT ![sessionId] = "running"]
                          ELSE sessionStatuses
    /\ UNCHANGED <<dirSessionStatus, dirMessages, dirParts, mdMounted,
                   cooldownTimers, mdPending, mdUpdates, mdLast, mdLate, mdCleared, mdCall>>
    /\ UNCHANGED notMdVars

\* the setTimeout callback of the completed branch
MDTimerFired(sessionId) ==
    /\ cooldownTimers[sessionId] = 0
    /\ sessionStatuses' = [sessionStatuses EXCEPT ![sessionId] = "completed"]
    /\ cooldownTimers' = [cooldownTimers EXCEPT ![sessionId] = NoTimer]
    /\ mdPending' = mdPending - 1
    /\ mdLate' = (mdLate \/ ~mdMounted)
    /\ UNCHANGED <<dirSessionStatus, dirMessages, dirParts, mdMounted, mdBoot,
                   mdUpdates, mdLast, mdCleared, mdCall>>
    /\ UNCHANGED notMdVars

\* mutant: the cleanup leaves the timers of the map running
KeepAllTimers(timers) == timers

\* for (const timer of cooldownTimersRef.current.values()) clearTimeout(timer)
ClearAllTimers(timers) == [s \in DOMAIN timers |-> NoTimer]

\* the cleanups of the effects: the timers are cleared, the store unsubscribed
MDUnmount ==
    /\ mdMounted
    /\ mdMounted' = FALSE
    /\ cooldownTimers' = ClearAllTimers(cooldownTimers)
    /\ mdPending' = Cardinality({s \in MdSessions : cooldownTimers'[s] # NoTimer})
    /\ mdCleared' = Cardinality({s \in MdSessions : cooldownTimers[s] # NoTimer})
    /\ UNCHANGED <<dirSessionStatus, dirMessages, dirParts, mdBoot,
                   sessionStatuses, mdUpdates, mdLast, mdLate, mdCall>>
    /\ UNCHANGED notMdVars

\* one tick of the clock; timers that are due fire before the clock moves on
MDTick ==
    /\ \E s \in MdSessions : cooldownTimers[s] # NoTimer
    /\ \A s \in MdSessions : cooldownTimers[s] # 0
    /\ cooldownTimers' = [s \in MdSessions |-> TickTimer(cooldownTimers[s])]
    /\ UNCHANGED <<dirSessionStatus, dirMessages, dirParts, mdMounted, mdBoot,
                   sessionStatuses, mdPending, mdUpdates, mdLast, mdLate, mdCleared, mdCall>>
    /\ UNCHANGED notMdVars

\* the hook right after mount: nothing derived yet, bootstrap requests in flight
MDHookIdle ==
    /\ mdMounted = TRUE
    /\ mdBoot = [s \in MdSessions |-> TRUE]
    /\ sessionStatuses = [s \in MdSessions |-> Absent]
    /\ cooldownTimers = [s \in MdSessions |-> NoTimer]
    /\ mdPending = 0
    /\ mdUpdates = 0
    /\ mdLast = [s \in MdSessions |-> "none"]
    /\ mdLate = FALSE
    /\ mdCleared = 0
    /\ mdCall = NoCall

MDInit ==
    /\ dirSessionStatus = [s \in MdSessions |-> Absent]
    /\ dirMessages = [s \in MdSessions |-> <<>>]
    /\ dirParts = [m \in MdMessageIds |-> <<>>]
    /\ MDHookIdle

NextMultiStatus ==
    \/ \E sessionId \in MdSessions, status \in StatusValues :
          MDStatusUpdate(sessionId, status)
    \/ \E sessionId \in MdSessions, id \in MdMessageIds, info \in MessageInfos :
          MDMessageUpdate(sessionId, id, info)
    \/ \E id \in MdMessageIds, parts \in SinglePartLists : MDPartUpdate(id, parts)
    \/ MDOtherUpdate
    \/ \E sessionId \in MdSessions, status \in {"running", "completed", "failed"} :
          MDBootResolved(sessionId, status)
    \/ \E sessionId \in MdSessions : MDTimerFired(sessionId)
    \/ MDUnmount
    \/ MDTick

(***************************************************************************)
(* OpenCodeProvider: routing of SSE events to the store                    *)
(***************************************************************************)
\* the directory prop of the provider, and the directories events carry
PvDirectory == "/test/dir"
PvDirectories == {PvDirectory, "/other/dir", "global"}
PvIds == 1..MaxProviderId
\* what the handler reads when the payload lacks the field it looks for
Undefined == [undefined |-> TRUE]
\* properties.info of a session event: share is an optional field
SessionInfos ==
    [id : PvIds, title : Contents] \cup [id : PvIds, title : Contents, share : {"x"}]
\* properties.info of a message event
MessageEventInfos == [id : PvIds, sessionID : PvIds, role : {"user", "assistant"}]
\* the events handleEvent is subscribed to; info is Undefined when the
\* payload lacks what the branch reads
PvEvents ==
    [directory : PvDirectories, type : {"session.created", "session.updated"},
     info : SessionInfos \cup {Undefined}]
    \cup [directory : PvDirectories, type : {"session.deleted"},
          info : [sessionID : PvIds] \cup {Undefined}]
    \cup [directory : PvDirectories, type : {"message.updated"},
          info : MessageEventInfos \cup {Undefined}]
    \cup [directory : PvDirectories, type : {"message.removed"},
          info : [sessionID : PvIds, messageID : PvIds] \cup {Undefined}]
NoEvent == [directory |-> "none", type |-> "none", info |-> Undefined]

\* mutant: the draft is left as it was
KeepDraft(draft, info) == draft

\* Object.assign(draft, info): the fields the event carries overwrite the
\* draft's, the others stay
ObjectAssign(draft, info) ==
    [f \in DOMAIN draft \cup DOMAIN info |->
        IF f \in DOMAIN info THEN info[f] ELSE draft[f]]

\* store.getSession(id) finds a session / getMessages(sessionID).find(...)
Existing(list, id) == BinarySearch(list, id).found

\* store.updateSession(id, recipe) and store.updateMessage(sessionID, id, recipe)
\* with the recipe draft => Object.assign(draft, info)
UpdateEntry(list, info) ==
    LET r == BinarySearch(list, info.id)
    IN  IF r.found THEN [list EXCEPT ![r.index] = ObjectAssign(@, info)]
        ELSE list

\* store.removeSession(id) and store.removeMessage(sessionID, id)
RemoveEntry(list, id) == SelectSeq(list, LAMBDA x : x.id # id)

\* mutant: "global" is not accepted
AcceptsOwnOnly(directory, eventDirectory) == eventDirectory = directory

\* the directory filter of handleEvent
Accepts(directory, eventDirectory) ==
    ~(eventDirectory # directory /\ eventDirectory # "global")

\* handleEvent(event) of a provider for directory, on store st: the new store
RouteEvent(st, directory, event) ==
    IF ~Accepts(directory, event.directory) \/ event.info = Undefined
    THEN st
    ELSE CASE event.type \in {"session.created", "session.updated"} ->
                  [st EXCEPT !.sessions =
                      IF Existing(@, event.info.id)
                      THEN UpdateEntry(@, event.info)
                      ELSE StoreInsert(@, event.info)]
           [] event.type = "session.deleted" ->
                  [st EXCEPT !.sessions = RemoveEntry(@, event.info.sessionID)]
           [] event.type = "message.updated" ->
                  [st EXCEPT !.messages[event.info.sessionID] =
                      IF Existing(@, event.info.id)
                      THEN UpdateEntry(@, event.info)
                      ELSE StoreInsert(@, event.info)]
           [] event.type = "message.removed" ->
                  [st EXCEPT !.messages[event.info.sessionID] =
                      RemoveEntry(@, event.info.messageID)]

\* the store as handleEvent sees it
PvStore == [sessions |-> pvSessions, messages |-> pvMessages]

\* the collection an event is about
EventList(st, event) ==
    IF event.info = Undefined THEN <<>>
    ELSE IF event.type \in {"session.created", "session.updated", "session.deleted"}
         THEN st.sessions
         ELSE st.messages[event.info.sessionID]

\* an event is delivered to handleEvent
PVHandleEvent(event) ==
    /\ pvEvents < MaxProviderEvents
    /\ pvEvents' = pvEvents + 1
    /\ pvSessions' = RouteEvent(PvStore, PvDirectory, event).sessions
    /\ pvMessages' = RouteEvent(PvStore, PvDirectory, event).messages
    /\ pvLast' = event
    /\ pvBefore' = EventList(PvStore, event)
    /\ UNCHANGED notPvVars

PVInit ==
    /\ pvSessions = <<>>
    /\ pvMessages = [s \in PvIds |-> <<>>]
    /\ pvLast = NoEvent
    /\ pvBefore = <<>>
    /\ pvEvents = 0

NextProvider == \E event \in PvEvents : PVHandleEvent(event)

(* ------------------------------------------------------------------ *)
(* useSSE of the web app: one connection, subscribers by event type    *)
(* ------------------------------------------------------------------ *)
\* event.payload.type of the events of the stream
EventTypes == {"message.updated", "session.updated"}

\* the keys of subscribersRef: an event type or the wildcard
Wildcard == "*"
SubscriptionTypes == EventTypes \cup {Wildcard}

\* a subscribed handler: the key it was subscribed under, and whether it
\* throws when it is called
Handlers == [type : SubscriptionTypes, throws : BOOLEAN]

NoDispatch == [type |-> "none"]

\* the handlers of one key, in the order of their subscription (Set order)
HandlersOf(subscribers, key) ==
    SelectSeq(subscribers, LAMBDA handler : handler.type = key)

\* the handlers an event is broadcast to: those of its type, then the wildcard
Broadcast(subscribers, eventType) ==
    HandlersOf(subscribers, eventType) \o HandlersOf(subscribers, Wildcard)

\* mutant: the call of a handler is not wrapped, its exception escapes
EscapesWhenThrown(handler) == handler.throws

\* try { handler(event) } catch (error) { console.error(...) }
Escapes(handler) == FALSE

\* handlers.forEach over the queue: the handlers called, the exceptions
\* caught, and whether an exception left the loop
RECURSIVE InvokeAll(_)
InvokeAll(queue) ==
    IF queue = <<>> THEN [called |-> <<>>, caught |-> 0, escaped |-> FALSE]
    ELSE IF Escapes(Head(queue))
         THEN [called |-> <<Head(queue)>>, caught |-> 0, escaped |-> TRUE]
         ELSE LET rest == InvokeAll(Tail(queue))
              IN [called  |-> <<Head(queue)>> \o rest.called,
                  caught  |-> rest.caught
                                + (IF Head(queue).throws THEN 1 ELSE 0),
                  escaped |-> rest.escaped]

\* one iteration of the for await loop: the broadcast, and the state after
\* it (an exception that leaves the loop reaches the catch of connect())
Dispatch(subscribers, state, eventType) ==
    LET run == InvokeAll(Broadcast(subscribers, eventType))
    IN [called |-> run.called,
        caught |-> run.caught,
        state  |-> IF run.escaped THEN "error" ELSE state]

\* subscribe(eventType, handler)
WSSubscribe(handler) ==
    /\ Len(wsSubscribers) < MaxHandlers
    /\ wsSubscribers' = Append(wsSubscribers, handler)
    /\ UNCHANGED <<wsState, wsLast, wsCaughtBefore, wsEvents>>
    /\ UNCHANGED notWsVars

\* the function subscribe() returned is called
WSUnsubscribe(k) ==
    /\ k \in 1..Len(wsSubscribers)
    /\ wsSubscribers' = SubSeq(wsSubscribers, 1, k - 1)
                          \o SubSeq(wsSubscribers, k + 1, Len(wsSubscribers))
    /\ UNCHANGED <<wsState, wsLast, wsCaughtBefore, wsEvents>>
    /\ UNCHANGED notWsVars

\* globalClient.global.event() resolves
WSConnected ==
    /\ wsState = "connecting"
    /\ wsState' = "connected"
    /\ UNCHANGED <<wsSubscribers, wsLast, wsCaughtBefore, wsEvents>>
    /\ UNCHANGED notWsVars

\* the stream delivers an event, which is broadcast to the subscribers
WSEvent(eventType) ==
    /\ wsState = "connected"
    /\ wsEvents < MaxSseEvents
    /\ LET result == Dispatch(wsSubscribers, wsState, eventType)
       IN /\ wsState' = result.state
          /\ wsLast' = [type     |-> eventType,
                        matching |-> Len(Broadcast(wsSubscribers, eventType)),
                        called   |-> Len(result.called),
                        caught   |-> result.caught,
                        state    |-> result.state]
          /\ wsCaughtBefore' =
                (wsCaughtBefore \/ (wsLast # NoDispatch /\ wsLast.caught > 0))
    /\ wsEvents' = wsEvents + 1
    /\ UNCHANGED wsSubscribers
    /\ UNCHANGED notWsVars

\* the stream ends gracefully
WSStreamEnds ==
    /\ wsState = "connected"
    /\ wsState' = "disconnected"
    /\ UNCHANGED <<wsSubscribers, wsLast, wsCaughtBefore, wsEvents>>
    /\ UNCHANGED notWsVars

\* event() rejects, or the stream raises an error: catch of connect()
WSConnectionError ==
    /\ wsState \in {"connecting", "connected"}
    /\ wsState' = "error"
    /\ UNCHANGED <<wsSubscribers, wsLast, wsCaughtBefore, wsEvents>>
    /\ UNCHANGED notWsVars

\* cleanup on unmount
WSUnmount ==
    /\ wsState # "disconnected"
    /\ wsState' = "disconnected"
    /\ UNCHANGED <<wsSubscribers, wsLast, wsCaughtBefore, wsEvents>>
    /\ UNCHANGED notWsVars

WSInit ==
    /\ wsState = "connecting"
    /\ wsSubscribers = <<>>
    /\ wsLast = NoDispatch
    /\ wsCaughtBefore = FALSE
    /\ wsEvents = 0

NextWebSSE ==
    \/ \E handler \in Handlers : WSSubscribe(handler)
    \/ \E k \in 1..MaxHandlers : WSUnsubscribe(k)
    \/ WSConnected
    \/ \E eventType \in EventTypes : WSEvent(eventType)
    \/ WSStreamEnds
    \/ WSConnectionError
    \/ WSUnmount

(* ------------------------------------------------------------------ *)
(* useSession, useSessionList, useParts: fetch on mount and on refetch  *)
(* ------------------------------------------------------------------ *)
FetchHooks == {"useSession", "useSessionList", "useParts"}

\* fetch(): run by the effect when the options change, and by refetch()
FHFetch ==
    /\ fhStarted < MaxFetches
    /\ fhStarted' = fhStarted + 1
    /\ fhInflight' = fhInflight \cup {fhStarted + 1}
    /\ fhLoading' = TRUE
    /\ fhError' = 0
    /\ UNCHANGED <<fhHook, fhData>>
    /\ UNCHANGED notFhVars

\* the promise of a request resolves: .then, then .finally
FHResolved(request) ==
    /\ request \in fhInflight
    /\ fhInflight' = fhInflight \ {request}
    /\ fhData' = request
    /\ fhError' = 0
    /\ fhLoading' = FALSE
    /\ UNCHANGED <<fhHook, fhStarted>>
    /\ UNCHANGED notFhVars

\* the promise of a request rejects: .catch, then .finally
FHRejected(request) ==
    /\ request \in fhInflight
    /\ fhInflight' = fhInflight \ {request}
    /\ fhError' = request
    /\ fhData' = 0
    /\ fhLoading' = FALSE
    /\ UNCHANGED <<fhHook, fhStarted>>
    /\ UNCHANGED notFhVars

\* the first render: useState(null) or useState([]), loading, no error
FHIdle ==
    /\ fhData = 0
    /\ fhLoading = TRUE
    /\ fhError = 0
    /\ fhInflight = {}
    /\ fhStarted = 0

FHInit == fhHook = "useSession" /\ FHIdle

NextFetch ==
    \/ FHFetch
    \/ \E request \in 1..MaxFetches : FHResolved(request)
    \/ \E request \in 1..MaxFetches : FHRejected(request)

(* ------------------------------------------------------------------ *)
(* useCompactionState: the compaction state of one session              *)
(* ------------------------------------------------------------------ *)
\* options.sessionId, and the sessions whose events the hook receives
OwnSession == "test-session"
CompactionSessions == {OwnSession, "other-session"}

\* Date.now(), later than the timestamp 1 an event may carry
DateNow == 2

\* the events the hook receives; a field the payload does not carry is its
\* falsy value: automatic FALSE, timestamp 0, progress ""
CompactionEvents ==
    [type      : {"compaction.started", "compaction.progress",
                  "compaction.completed", "session.updated"},
     sessionID : CompactionSessions,
     automatic : BOOLEAN,
     timestamp : 0..1,
     progress  : {"", "pending", "generating", "complete"}]

DEFAULT_STATE ==
    [isCompacting |-> FALSE, isAutomatic |-> FALSE, progress |-> "complete",
     startedAt |-> 0]

\* setState(prev => ({...prev, progress: properties.progress || prev.progress}))
Progress(prev, event) ==
    [prev EXCEPT !.progress = IF event.progress # "" THEN event.progress
                              ELSE prev.progress]

\* the state after onEvent(event)
OnEvent(prev, event) ==
    IF event.type \notin {"compaction.started", "compaction.progress",
                          "compaction.completed"}
    THEN prev
    ELSE IF event.sessionID # OwnSession THEN prev
    ELSE IF event.type = "compaction.started"
    THEN [isCompacting |-> TRUE,
          isAutomatic  |-> event.automatic,
          progress     |-> "pending",
          startedAt    |-> IF event.timestamp # 0 THEN event.timestamp
                           ELSE DateNow]
    ELSE IF event.type = "compaction.progress" THEN Progress(prev, event)
    ELSE DEFAULT_STATE

\* useMultiServerSSE delivers an event to onEvent
CSOnEvent(event) ==
    /\ csEvents < MaxCompactionEvents
    /\ csEvents' = csEvents + 1
    /\ csState' = OnEvent(csState, event)
    /\ csLast' = [type |-> event.type, sessionID |-> event.sessionID]
    /\ UNCHANGED notCsVars

\* useState(DEFAULT_STATE)
CSInit ==
    /\ csState = DEFAULT_STATE
    /\ csLast = [type |-> "none", sessionID |-> "none"]
    /\ csEvents = 0

NextCompaction == \E event \in CompactionEvents : CSOnEvent(event)

\* the stand-alone hooks after their first render
HKInit == WSInit /\ FHInit /\ CSInit

StoreInit ==
    /\ messages = <<>>
    /\ rawMessages = <<>>
    /\ storeLast = [op |-> "none", info |-> Item(0, "a"), before |-> <<>>]

\* the events of the ordered store alone
NextOrdered == \E i \in Ids, c \in Contents : HandleSSEEvent(Item(i, c))

NextStore ==
    \/ \E i \in Ids, c \in Contents : HandleSSEEvent(Item(i, c))
    \/ \E i \in Ids, c \in Contents, forUs \in BOOLEAN :
          SessionLayoutMessageUpdated(Item(i, c), forUs)

Init ==
    StoreInit /\ SyncInit /\ SSInit /\ MSInit /\ DSInit /\ CnInit /\ MDInit /\ PVInit
    /\ HKInit

\* createMergedWorldStream({sources}) called with any sources
\* the merged stream is collected (Stream.runCollect): nobody disposes it
NextCollect ==
    \/ \E src \in SourceNames : MSCheckAvailable(src)
    \/ \E src \in SourceNames : MSEmit(src)
    \/ \E src \in SourceNames : MSSourceSettles(src)
    \/ MSComplete

InitMerged ==
    /\ StoreInit /\ SyncInit /\ SSInit /\ DSInit /\ CnInit /\ MDInit /\ PVInit
    /\ HKInit
    /\ msSources \in UNION {[1..n -> MockSources] : n \in 0..MaxSources}
    /\ MSIdle

SpecStore == Init /\ [][NextStore]_vars
SpecOrdered == Init /\ [][NextOrdered]_vars
SpecSync == Init /\ [][NextSync]_vars
SpecSessionStatus == Init /\ [][NextSessionStatus]_vars
\* any of the three implementations, right after its first connect()
InitConn ==
    /\ StoreInit /\ SyncInit /\ SSInit /\ MSInit /\ DSInit /\ MDInit /\ PVInit
    /\ HKInit
    /\ cnVariant \in Variants
    /\ CnConnecting

\* the clock keeps running and a timeout that is due runs its callback
SpecSessionStatusLive ==
    /\ Init
    /\ [][NextSessionStatus]_vars
    /\ WF_vars(SSTick)
    /\ WF_vars(SSTimerFired)
\* sources whose stream is finite and error-free (createMockSource)
InitCollect ==
    /\ StoreInit /\ SyncInit /\ SSInit /\ DSInit /\ CnInit /\ MDInit /\ PVInit
    /\ HKInit
    /\ msSources \in UNION {[1..n -> {src \in MockSources : ~src.fails}] :
                                n \in 0..MaxSources}
    /\ MSIdle

SpecMerged == InitMerged /\ [][NextMerged]_vars
\* every availability check returns, a finite source stream delivers its
\* events and then ends, and the merge completes once nothing is subscribed
SpecMergedLive ==
    /\ InitCollect /\ [][NextCollect]_vars
    /\ \A src \in 1..MaxSources : WF_vars(src \in SourceNames /\ MSCheckAvailable(src))
    /\ \A src \in 1..MaxSources : WF_vars(src \in SourceNames /\ MSEmit(src))
    /\ \A src \in 1..MaxSources : WF_vars(src \in SourceNames /\ MSSourceSettles(src))
    /\ WF_vars(MSComplete)
SpecDiscover == Init /\ [][NextDiscover]_vars
\* Effect.forEach starts a waiting probe as soon as a slot is free, the timer
\* of Effect.timeout fires for a probe that is still open, and the scan
\* returns once every probe has settled; no answer of a server is assumed
SpecDiscoverLive ==
    /\ Init /\ [][NextScan]_vars
    /\ \A port \in Ports : WF_vars(DSStartProbe(port))
    /\ \A port \in Ports : WF_vars(DSProbeSettles(port, "timeout"))
    /\ WF_vars(DSResolve)
SpecConn == InitConn /\ [][NextConn]_vars
\* a reconnect timeout that was scheduled and not cleared fires
SpecConnLive == InitConn /\ [][NextConn]_vars /\ WF_vars(CnTimerFired)

\* deriveSessionStatus called on any store state
InitDerive ==
    /\ StoreInit /\ SyncInit /\ SSInit /\ MSInit /\ DSInit /\ CnInit /\ PVInit
    /\ HKInit
    /\ dirSessionStatus \in [MdSessions -> StatusValues \cup {Absent}]
    /\ \E first \in {NoMessage} \cup [session : {"ses-1"}, info : MessageInfos],
          second \in {NoMessage} \cup [session : MdSessions, info : MessageInfos] :
            dirMessages = MessagesOf(first, second)
    /\ dirParts \in [MdMessageIds -> PartLists]
    /\ \A m \in MdMessageIds : Owner(dirMessages, m) = Absent => dirParts[m] = <<>>
    /\ MDHookIdle

SpecDerive == InitDerive /\ [][NextDerive]_vars
SpecMultiStatus == Init /\ [][NextMultiStatus]_vars
SpecProvider == Init /\ [][NextProvider]_vars
SpecWebSSE == Init /\ [][NextWebSSE]_vars
\* any of the three fetch hooks, at its first render
InitFetch ==
    /\ StoreInit /\ SyncInit /\ SSInit /\ MSInit /\ DSInit /\ CnInit /\ MDInit
    /\ PVInit /\ WSInit /\ CSInit
    /\ fhHook \in FetchHooks
    /\ FHIdle
SpecFetch == InitFetch /\ [][NextFetch]_vars
SpecCompaction == Init /\ [][NextCompaction]_vars

(***************************************************************************)
(* Claims about the ordered store                                          *)
(***************************************************************************)
StrictlyIncreasing(array) ==
    \A k \in 1..(Len(array) - 1) : array[k].id < array[k + 1].id

\* C1: after any sequence of inserts into an initially empty collection the
\* collection is strictly increasing by id, so no id occurs twice.
C1_SortedNoDuplicates ==
    /\ StrictlyIncreasing(messages)
    /\ StrictlyIncreasing(rawMessages)
    /\ \A k, l \in 1..Len(messages) : messages[k].id = messages[l].id => k = l

\* C1 witness: a new id was spliced in before the entries already present.
C1_Witness ==
    /\ storeLast.op = "insert"
    /\ Len(storeLast.before) >= 2
    /\ storeLast.info.id < storeLast.before[1].id
    /\ Len(rawMessages) >= 2

\* C10: an insert of an id that is already present replaces that entry's
\* contents and changes nothing else: same length, same index of the id, every
\* other entry as before.
C10_UpdateInPlace ==
    storeLast.op = "update" =>
        /\ Len(messages) = Len(storeLast.before)
        /\ \A k \in 1..Len(storeLast.before) :
              IF storeLast.before[k].id = storeLast.info.id
              THEN messages[k] = storeLast.info
              ELSE messages[k] = storeLast.before[k]

\* C10 witness: an entry in the middle of the collection got new contents.
C10_Witness ==
    /\ storeLast.op = "update"
    /\ Len(storeLast.before) >= 3
    /\ storeLast.before[2].id = storeLast.info.id
    /\ storeLast.before[2].body # storeLast.info.body

(***************************************************************************)
(* Claims about the reconciliation queue                                   *)
(***************************************************************************)
\* how often the part event ev occurs in the pending queues / in the API calls
PendingCount(ev) ==
    Cardinality({mk \in {<<m, k>> : m \in MsgIds, k \in 1..MaxEvents} :
                    /\ mk[2] <= Len(pendingParts[mk[1]])
                    /\ pendingParts[mk[1]][mk[2]].ev = ev})
DispatchCount(ev) ==
    Cardinality({k \in 1..Len(dispatched) : dispatched[k].ev = ev})

\* C2: a part event received while its messageID has no recorded session is
\* never discarded and never dispatched twice: it is in the pending list of its
\* messageID exactly once until a message event of a registered session for
\* that messageID has been processed, and from then on it has been dispatched
\* exactly once.
C2_QueuedOnceFlushedOnce ==
    \A i \in 1..Len(arrived) :
        ~arrived[i].hadSession =>
            /\ PendingCount(arrived[i].ev) + DispatchCount(arrived[i].ev) = 1
            /\ arrived[i].msgSeen => DispatchCount(arrived[i].ev) = 1
            /\ ~arrived[i].msgSeen =>
                  \E k \in 1..Len(pendingParts[arrived[i].messageID]) :
                      pendingParts[arrived[i].messageID][k].ev = arrived[i].ev

\* C5: processing the message event for m (of a registered session) dispatches
\* exactly the part events of m that were received before it and are still
\* undispatched, in arrival order, each with the sessionID of the message, and
\* no part of another messageID.
C5_FlushInArrivalOrder ==
    lastMsg.type # "none" =>
        /\ Len(lastMsg.got) = Len(lastMsg.expect)
        /\ \A k \in 1..Len(lastMsg.got) :
              /\ lastMsg.got[k].ev = lastMsg.expect[k].ev
              /\ lastMsg.got[k].messageID = lastMsg.message.id
              /\ lastMsg.got[k].sessionID = lastMsg.message.sessionID

\* C13: once a message event (message.created or message.updated) for message
\* m of a registered session has been fully processed, the
\* messageID-to-sessionID map contains m and the pending queue holds no entry
\* for m
C13_MappedAndQueueEmpty ==
    /\ lastMsg.type # "none" =>
          /\ messageToSessionMap[lastMsg.message.id] = lastMsg.message.sessionID
          /\ pendingParts[lastMsg.message.id] = <<>>
    /\ \A m \in MsgIds :
          messageToSessionMap[m] # NoSession => pendingParts[m] = <<>>

\* the position in the API calls of the first call that carries part event ev,
\* 0 when there is none
DispatchedAt(ev) ==
    IF \E k \in 1..Len(dispatched) : dispatched[k].ev = ev
    THEN CHOOSE k \in 1..Len(dispatched) :
            /\ dispatched[k].ev = ev
            /\ \A l \in 1..(k - 1) : dispatched[l].ev # ev
    ELSE 0

\* C14: the part events of one message reach the store in the order in which
\* they arrived: when a part has been dispatched, every part of the same
\* message that arrived before it was dispatched earlier, whether it had been
\* queued or dispatched directly
C14_PartsInArrivalOrder ==
    \A i, j \in 1..Len(arrived) :
        (/\ i < j
         /\ arrived[i].messageID = arrived[j].messageID
         /\ DispatchedAt(arrived[j].ev) # 0)
        => /\ DispatchedAt(arrived[i].ev) # 0
           /\ DispatchedAt(arrived[i].ev) < DispatchedAt(arrived[j].ev)

(***************************************************************************)
(* Claims about useSessionStatus                                           *)
(***************************************************************************)
\* C3: running only ever turns from true to false by the expiry of a cooldown
\* timer that an idle signal started and that no busy signal interrupted.
C3_OnlyCooldownCompletes == ssDropBy \in {"none", "timer"}

\* C6: once a busy signal has cancelled a pending cooldown timer, and until the
\* next idle signal, no timer is pending and the status is running, before, at
\* and after the instant at which the cancelled timer would have fired.
C6_BusyCancelsCooldown ==
    ssCancelled # NoTimer => (ssRunning /\ ssTimer = NoTimer)

(***************************************************************************)
(* Claims about the merged stream                                          *)
(***************************************************************************)
\* C4: the merged stream emits an event only if its source's availability
\* check returned true, and once it has completed it has emitted every event
\* of every available source (exactly once).
C4_OnlyAvailableSources ==
    /\ \A k \in 1..Len(msOut) : msSources[msOut[k].source].available = "true"
    /\ msStatus = "done" =>
          \A src \in SourceNames :
              msSources[src].available = "true" =>
                  \A j \in 1..msSources[src].count :
                      Cardinality({k \in 1..Len(msOut) :
                                      msOut[k] = SourceEvent(src, j)}) = 1

\* C4 witness: a completed merge of an available source with events and an
\* unavailable source with events.
C4_Witness ==
    /\ msStatus = "done"
    /\ msOut # <<>>
    /\ \E src \in SourceNames :
          msSources[src].available = "false" /\ msSources[src].count > 0

\* the events in the merged stream that carry the origin tag of src, and the
\* events src has emitted so far
EventsOf(src) == SelectSeq(msOut, LAMBDA event : event.source = src)
EmittedBy(src) == [k \in 1..msPos[src] |-> SourceEvent(src, k)]

\* C15: for every available source and under every interleaving, the
\* subsequence of the merged stream tagged with that source equals the sequence
\* the source emitted (same events, same order, none lost, none duplicated),
\* and a completed merge has taken every event of the source
C15_PerSourceOrderPreserved ==
    \A src \in SourceNames :
        msSources[src].available = "true" =>
            /\ EventsOf(src) = EmittedBy(src)
            /\ msStatus = "done" => msPos[src] = msSources[src].count

\* two available sources with two events each, merged interleaved
C15_Witness ==
    /\ msStatus = "done"
    /\ Len(msOut) = 4
    /\ msOut[1].source # msOut[2].source
    /\ msOut[2].source # msOut[3].source
    /\ msOut[3].source # msOut[4].source

\* this step is the stream of the subscribed source src raising its error
StreamRaises(src) ==
    /\ msSources[src].fails
    /\ msStatus = "live"
    /\ msChecked[src] = "subscribed"
    /\ msChecked'[src] = "ended"
    /\ msStatus' # "disposed"

\* C16: when the stream of a subscribed source raises an error the merged
\* stream fails with that error, whatever the state of the other sources, and
\* a failed merged stream emits no further event and never becomes live again
C16_FailFast ==
    [][/\ \A src \in SourceNames :
              StreamRaises(src) => (msStatus' = "failed" /\ msError' = src)
       /\ msStatus = "failed" =>
              (msOut' = msOut /\ msStatus' \in {"failed", "disposed"})]_vars

\* the merged stream has failed while a healthy source is still subscribed
\* and has events left
C16_Witness ==
    /\ msStatus = "failed"
    /\ msError # 0
    /\ \E src \in SourceNames :
          /\ ~msSources[src].fails
          /\ msChecked[src] = "subscribed"
          /\ msPos[src] < msSources[src].count

\* C17: a source whose availability check throws is treated like one whose
\* check returned false: it is never subscribed and none of its events is
\* emitted, the thrown error does not fail the merged stream, and the events of
\* the available sources are still emitted
C17_ThrowingCheckExcludes ==
    /\ \A src \in SourceNames :
          msSources[src].available = "throws" =>
              /\ msChecked[src] \in {"unchecked", "excluded"}
              /\ msPos[src] = 0
              /\ EventsOf(src) = <<>>
              /\ msError # src
    /\ msStatus = "failed" => (msError # 0 /\ msSources[msError].available = "true")
    /\ msStatus = "done" =>
          \A src \in SourceNames :
              msSources[src].available = "true" =>
                  Len(EventsOf(src)) = msSources[src].count

\* a completed merge of a source whose check throws, which has events, and of
\* an available source whose events were emitted
C17_Witness ==
    /\ msStatus = "done"
    /\ msOut # <<>>
    /\ \E src \in SourceNames :
          /\ msSources[src].available = "throws"
          /\ msSources[src].count > 0
          /\ msChecked[src] = "excluded"

\* C18: with zero sources, or with every provided source unavailable, the
\* merged stream emits no event and never fails
C18_EmptyMergeIsQuiet ==
    (\A src \in SourceNames : msSources[src].available # "true") =>
        /\ msOut = <<>>
        /\ msStatus # "failed"
        /\ msError = 0

\* a finished merge of two unavailable sources (one check returned false,
\* one threw) that have events and a failing stream
C18_Witness ==
    /\ msStatus = "done"
    /\ msOut = <<>>
    /\ \E a, b \in SourceNames :
          /\ msSources[a].available = "false"
          /\ msSources[b].available = "throws"
          /\ msSources[a].count > 0
          /\ msSources[b].fails

\* C19: once dispose() has returned no source is subscribed and no event is
\* emitted any more, and a further dispose() changes nothing and raises no
\* error
C19_DisposeTearsDown ==
    [][/\ msStatus' = "disposed" =>
              \A src \in SourceNames : msChecked'[src] # "subscribed"
       /\ msStatus = "disposed" =>
              /\ msOut' = msOut
              /\ msChecked' = msChecked
              /\ msPos' = msPos
              /\ msStatus' = "disposed"
              /\ msError' = msError]_vars

\* dispose() was called twice; the first call tore down a subscription of a
\* source that had emitted some of its events and had more to come
C19_Witness ==
    /\ msStatus = "disposed"
    /\ msDisposals = 2
    /\ msOut # <<>>
    /\ \E src \in SourceNames :
          /\ msSources[src].available = "true"
          /\ msChecked[src] = "ended"
          /\ msPos[src] < msSources[src].count

(***************************************************************************)
(* Claims about server discovery                                           *)
(***************************************************************************)
\* C7: discover() never rejects and resolves with a non-empty list; when no
\* probe found a server the list is exactly the single fallback entry, and
\* useServers never sees an error or an empty list once it has settled.
C7_DiscoverNeverFails ==
    /\ dsOutcome # "rejected"
    /\ ~usError
    /\ dsOutcome = "resolved" =>
          /\ Len(dsResult) >= 1
          /\ (\A port \in Ports : dsProbe[port] # "found")
                => dsResult = <<FallbackServer>>
          /\ ~usLoading => usServerList = dsResult

\* C7 witness: every probe has failed and the scan resolved with the fallback.
C7_Witness ==
    /\ dsOutcome = "resolved"
    /\ \A port \in Ports : dsProbe[port] = "null"
    /\ dsResult = <<FallbackServer>>
    /\ ~usLoading

\* C11: at every moment at most one cooldown timer is pending for the
\* session (an idle signal cancels the pending timer before it starts the new
\* one), and running turns false no earlier than one full cooldown period
\* after the most recent idle signal
C11_OneTimerFullCooldown ==
    /\ ssPending <= 1
    /\ ssDropBy # "none" => ssDropAfter >= CooldownTicks

\* the cooldown timer of a running session is pending (an idle signal came)
CoolingDown == ssMounted /\ ssRunning /\ ssTimer # NoTimer

\* the cooldown has ended: completed with no timer left, or a busy signal
\* cancelled the timer, or the hook was unmounted
CooldownOver == ssTimer = NoTimer \/ ~ssMounted

C8_BackoffMonotoneCapped ==
    \A i \in 1..Len(cnDelays) :
        /\ cnDelays[i] <= MaxDelay
        /\ i > 1 => /\ cnDelays[i] >= cnDelays[i - 1]
                    /\ cnDelays[i] = Min(2 * cnDelays[i - 1], MaxDelay)

\* a run of failures long enough to reach the cap and to stay on it
C8_Witness ==
    /\ Len(cnDelays) >= 6
    /\ cnDelays[4] < MaxDelay
    /\ cnDelays[5] = MaxDelay
    /\ cnDelays[6] = MaxDelay

\* C9: a successful connection resets the backoff counter: the first
\* connection failure after a successful connection schedules the reconnect
\* with the baseline delay, however many failures preceded that success
C9_SuccessResetsBackoff ==
    (cnOpened /\ cnDelays # <<>>) => cnDelays[1] = BaseDelay

\* a success that came after three failures, followed by a failure
C9_Witness ==
    /\ cnOpened
    /\ cnFailedBefore >= 3
    /\ cnDelays # <<>>
    /\ cnDelays[1] = BaseDelay

\* C20: whenever a connection has terminated (end of stream or error) and the
\* owner is still mounted, a reconnect attempt is scheduled, so the connection
\* does not stay disconnected or in error
C20_TerminationSchedulesReconnect ==
    (cnMounted /\ cnEs = "closed") => cnPending > 0

\* C21: when the visibility trigger starts a connection attempt, the retry
\* that was scheduled before is cancelled: while the attempt the trigger
\* started is in flight no reconnect timeout is pending, so none can fire and
\* start a second attempt
C21_VisibilityCancelsRetry ==
    (cnTrigger = "visibility" /\ cnEs = "connecting") => cnPending = 0

\* C22: once the owner is unmounted no backoff timeout is pending and no
\* connection is open or being established, whether held or left behind, so
\* no reconnect starts later
C22_NothingLeftAfterUnmount ==
    ~cnMounted =>
        /\ cnPending = 0
        /\ cnEs \notin Live
        /\ cnOrphans.connecting + cnOrphans.open = 0

\* the connections of the source that are open or being established
LiveConnections ==
    (IF cnEs \in Live THEN 1 ELSE 0) + cnOrphans.connecting + cnOrphans.open

\* C23: at every moment at most one connection of the source is open or being
\* established, and connect() is never run (by a timeout or by the visibility
\* trigger) while another connection is still open or in flight
C23_AtMostOneConnection ==
    /\ LiveConnections <= 1
    /\ ~cnOverlap

(***************************************************************************)
(* Claims about deriveSessionStatus and useMultiDirectoryStatus            *)
(***************************************************************************)
\* C24: once useMultiDirectoryStatus is unmounted, no cooldown timer is
\* pending for any session, no scheduled callback is left, and no cooldown
\* callback has run since the unmount
C24_UnmountClearsCooldowns ==
    ~mdMounted =>
        /\ \A s \in MdSessions : cooldownTimers[s] = NoTimer
        /\ mdPending = 0
        /\ ~mdLate

\* the hook was unmounted while every session was cooling down
C24_Witness ==
    /\ ~mdMounted
    /\ mdCleared = Cardinality(MdSessions)
    /\ \A s \in MdSessions : cooldownTimers[s] = NoTimer

\* the session the last direct call asked about has a task tool part whose
\* state is running, in any of its messages
CalledSessionHasRunningTask ==
    \E i \in DOMAIN dirMessages[mdCall.sessionId] :
        \E j \in DOMAIN dirParts[dirMessages[mdCall.sessionId][i].id] :
            dirParts[dirMessages[mdCall.sessionId][i].id][j] =
                [type |-> "tool", tool |-> "task", status |-> "running"]

\* C25: deriveSessionStatus returns running whenever the explicit status of
\* the session is running, and, with includeSubAgents, whenever any part of
\* any message of the session is a running task tool part, whatever the
\* explicit status is
C25_RunningSources ==
    (mdCall # NoCall /\ mdCall.directory = Directory) =>
        /\ dirSessionStatus[mdCall.sessionId] = "running"
              => mdCall.result = "running"
        /\ (mdCall.options.includeSubAgents /\ CalledSessionHasRunningTask)
              => mdCall.result = "running"

\* running was returned for a session whose explicit status is completed,
\* because of a running task part that is neither in the last message nor
\* the first part of its message
C25_Witness ==
    /\ mdCall # NoCall
    /\ mdCall.directory = Directory
    /\ mdCall.result = "running"
    /\ dirSessionStatus[mdCall.sessionId] = "completed"
    /\ Len(dirMessages[mdCall.sessionId]) = 2
    /\ dirParts[dirMessages[mdCall.sessionId][1].id] =
          <<[type |-> "tool", tool |-> "bash", status |-> "running"],
            [type |-> "tool", tool |-> "task", status |-> "running"]>>
    /\ dirParts[dirMessages[mdCall.sessionId][2].id] = <<>>

\* C26: once the store holds an explicit status for a session, a bootstrap
\* request that settles for that session leaves its visible status as it is
C26_BootstrapOnlyBeforeExplicit ==
    [][\A s \in MdSessions :
          (dirSessionStatus[s] # Absent /\ mdBoot[s] /\ ~mdBoot'[s])
              => sessionStatuses'[s] = sessionStatuses[s]]_vars

\* C27: useSessionStatus is always in one of the three states of the
\* machine: a cooldown timer is pending only while running is true
C27_TimerOnlyWhileRunning ==
    ssTimer # NoTimer => ssRunning

(***************************************************************************)
(* Claims about useSubagentSync and unregistered sessions                  *)
(***************************************************************************)
\* the getSessions() promise of the oldest pending message event resolves
\* and the session of that message is not registered
UnregisteredMessageProcessed ==
    /\ inflight # <<>>
    /\ inflight' = Tail(inflight)
    /\ Head(inflight).message.sessionID \notin registered

\* C28: every call made to the subagents API is for a registered session,
\* and processing a message event of an unregistered session changes neither
\* the messageID-to-sessionID map nor the queued parts nor the calls made
C28_UnregisteredIgnored ==
    /\ [](\A k \in 1..Len(dispatched) : dispatched[k].sessionID \in registered)
    /\ [][UnregisteredMessageProcessed =>
             /\ messageToSessionMap' = messageToSessionMap
             /\ pendingParts' = pendingParts
             /\ dispatched' = dispatched]_vars

\* a message.created event of an unregistered session was dropped while a
\* part was queued for its message: the part is still queued, nothing is
\* mapped and nothing was dispatched
C28_Witness ==
    /\ lastIgnored \in MsgIds
    /\ registered = {}
    /\ pendingParts[lastIgnored] # <<>>
    /\ messageToSessionMap[lastIgnored] = NoSession
    /\ dispatched = <<>>
    /\ inflight = <<>>

(***************************************************************************)
(* Claims about OpenCodeProvider                                           *)
(***************************************************************************)
\* the entries of a collection that have the id given
EntriesWithId(list, id) == {k \in DOMAIN list : list[k].id = id}

\* the entry has every field of the event's info, with the event's value
Carries(entry, info) ==
    \A f \in DOMAIN info : f \in DOMAIN entry /\ entry[f] = info[f]

\* the session, message.updated events that carry an info, from the
\* provider's own directory
UpsertEvents ==
    {e \in PvEvents :
        /\ e.directory = PvDirectory
        /\ e.type \in {"session.created", "session.updated", "message.updated"}
        /\ e.info # Undefined}

\* C29: whatever the store holds, after handleEvent has processed a
\* session.created, session.updated or message.updated event of the
\* provider's directory the collection the event is about (the sessions, the
\* messages of the event's session) holds exactly one entry with the
\* event's id, and that entry carries the event's fields
C29_ExactlyOneAfterUpsert ==
    \A e \in UpsertEvents :
        LET list == EventList(RouteEvent(PvStore, PvDirectory, e), e)
        IN  /\ Cardinality(EntriesWithId(list, e.info.id)) = 1
            /\ \A k \in EntriesWithId(list, e.info.id) : Carries(list[k], e.info)

\* a session.updated event was processed for an id the store already held
\* under another title: one session with that id is left, with the event's
\* title and the share field the event did not carry
C29_Witness ==
    /\ pvLast \in UpsertEvents
    /\ pvLast.type = "session.updated"
    /\ \E k \in DOMAIN pvBefore :
          /\ pvBefore[k].id = pvLast.info.id
          /\ pvBefore[k].title # pvLast.info.title
    /\ Cardinality(EntriesWithId(pvSessions, pvLast.info.id)) = 1
    /\ \A k \in EntriesWithId(pvSessions, pvLast.info.id) :
          /\ Carries(pvSessions[k], pvLast.info)
          /\ "share" \in DOMAIN pvSessions[k]
          /\ "share" \notin DOMAIN pvLast.info

\* C30: whatever the store holds, an event from a directory that is neither
\* the provider's nor "global" leaves it unchanged, and an event from
\* "global" is handled exactly like the same event from the provider's
\* own directory
C30_DirectoryFilter ==
    \A e \in PvEvents :
        /\ e.directory \notin {PvDirectory, "global"}
              => RouteEvent(PvStore, PvDirectory, e) = PvStore
        /\ e.directory = "global"
              => RouteEvent(PvStore, PvDirectory, e) =
                 RouteEvent(PvStore, PvDirectory, [e EXCEPT !.directory = PvDirectory])

\* a non-empty store received a session event of another directory and did
\* not change
C30_Witness ==
    /\ pvLast.directory = "/other/dir"
    /\ pvLast.type = "session.created"
    /\ pvLast.info # Undefined
    /\ pvBefore # <<>>
    /\ pvSessions = pvBefore
    /\ EntriesWithId(pvSessions, pvLast.info.id) = {}

(***************************************************************************)
(* Claims about the result of deriveSessionStatus                          *)
(***************************************************************************)
\* C31: whatever the store holds and whatever the session id, the directory
\* and the options are, deriveSessionStatus returns running or completed
C31_RunningOrCompleted ==
    mdCall # NoCall => mdCall.result \in {"running", "completed"}

(* Claims about the probes of discover() *)
\* C32: while discover() runs, the number of probes in flight at the same
\* time never exceeds the concurrency bound, also with more candidate ports
\* than the bound
C32_BoundedConcurrency == Cardinality(InFlight) <= Concurrency

\* C32 witness: as many probes as the bound allows are in flight and a
\* further candidate is still waiting for a slot.
C32_Witness ==
    /\ Cardinality(InFlight) = Concurrency
    /\ \E port \in Ports : dsProbe[port] = "waiting"

\* the ports of the servers in the list discover() resolved with
ResultPorts == {dsResult[k].port : k \in 1..Len(dsResult)}

\* C33: discover() always completes, also when some probes never answer: a
\* probe that has not answered when its timeout elapses counts as failed, it
\* is not in the result, and a scan that is pending is eventually resolved
C33_DiscoverCompletes ==
    /\ [](\A port \in dsSilent : dsProbe[port] = "null")
    /\ [](dsOutcome = "resolved" => ResultPorts \cap dsSilent = {})
    /\ (dsOutcome = "pending") ~> (dsOutcome = "resolved")

\* C33 witness: the scan has resolved with a reachable server although the
\* probe of another port never answered.
C33_Witness ==
    /\ dsOutcome = "resolved"
    /\ dsSilent # {}
    /\ \E port \in Ports : dsProbe[port] = "found" /\ port \in ResultPorts

(* Claims about the completion of the merged stream *)
\* the stream of every available source is error-free (all of them are finite)
ErrorFreeSources == \A src \in SourceNames : MSAvailable(src) => ~msSources[src].fails

\* every event of every available source is in the merged stream
AllEmitted ==
    \A src \in SourceNames :
        MSAvailable(src) =>
            \A j \in 1..msSources[src].count :
                \E k \in 1..Len(msOut) : msOut[k] = SourceEvent(src, j)

\* C34: when the stream of every available source is finite and error-free,
\* also when no source is available, the merged stream eventually completes
\* and has by then emitted every event of the available sources
C34_CollectTerminates == ErrorFreeSources ~> (msStatus = "done" /\ AllEmitted)

\* C34 witness: the merge of two available error-free sources with events has
\* completed.
C34_Witness ==
    /\ msStatus = "done"
    /\ Cardinality(SourceNames) = 2
    /\ \A src \in SourceNames :
          /\ msSources[src].available = "true"
          /\ ~msSources[src].fails
          /\ msSources[src].count > 0

\* C34 witness of the empty case: sources exist, none is available, and the
\* merge has completed without an event.
C34_WitnessNoneAvailable ==
    /\ msStatus = "done"
    /\ SourceNames # {}
    /\ \A src \in SourceNames : ~MSAvailable(src)

(* Claims about the broadcast of useSSE in the web app *)
\* C35: an exception thrown by a handler while an event is broadcast stops
\* none of the other handlers of that event, typed or wildcard, ends the
\* connection or changes its state; this holds for every event, so also for
\* the events that follow one whose handler threw
C35_HandlerErrorIsolated ==
    /\ wsState = "connected" =>
          \A eventType \in EventTypes :
              LET result == Dispatch(wsSubscribers, wsState, eventType)
              IN /\ result.called = Broadcast(wsSubscribers, eventType)
                 /\ result.state = wsState
    /\ wsLast # NoDispatch =>
          /\ wsLast.called = wsLast.matching
          /\ wsLast.state = "connected"

\* C35 witness: an earlier broadcast had a throwing handler, and in the last
\* broadcast a handler threw as well while every matching handler, three of
\* them, was called and the connection is still connected.
C35_Witness ==
    /\ wsCaughtBefore
    /\ wsLast # NoDispatch
    /\ wsLast.caught > 0
    /\ wsLast.called = 3
    /\ wsState = "connected"

(* Claims about the cooldown timers of useMultiDirectoryStatus *)
\* C36: a store update that does not change what is derived for session S
\* leaves S's pending cooldown timer as it is, neither restarted nor postponed,
\* so that S turns completed one cooldown period after its derived status
\* last changed to completed
C36_UpdateKeepsTimer ==
    [][\A s \in MdSessions :
          (/\ mdUpdates' # mdUpdates
           /\ mdLast'[s] = mdLast[s]
           /\ cooldownTimers[s] # NoTimer)
              => cooldownTimers'[s] = cooldownTimers[s]]_vars

(* Claims about the operation a part event is dispatched with *)
\* C37: every part event reaches the subagents API through the operation of
\* its event type, addPart for message.part.created and updatePart for
\* message.part.updated, whether it was dispatched directly or flushed from
\* the pending queue
C37_OperationMatchesEventType ==
    \A k \in 1..Len(dispatched) :
        dispatched[k].op \in {"addPart", "updatePart"} =>
            \A i \in 1..Len(arrived) :
                arrived[i].ev = dispatched[k].ev =>
                    dispatched[k].op =
                        (IF arrived[i].isUpdate THEN "updatePart" ELSE "addPart")

(* Claims about overlapping requests of the fetch hooks *)
\* C38: when a second fetch has started before an earlier one settled, then
\* once all of them have settled the hook shows the outcome of the request
\* that was started last, in whichever order the responses arrived
C38_LatestRequestWins ==
    (fhStarted >= 2 /\ fhInflight = {}) =>
        \/ fhData = fhStarted /\ fhError = 0
        \/ fhError = fhStarted /\ fhData = 0

(* Claims about the arrival order of the items of the ordered store *)
\* the sets of items with pairwise distinct ids
DistinctItems ==
    {batch \in SUBSET {Item(i, c) : i \in Ids, c \in Contents} :
        \A a, b \in batch : a.id = b.id => a = b}

\* the arrival orders of a set of items
RECURSIVE ArrivalOrders(_)
ArrivalOrders(batch) ==
    IF batch = {} THEN {<<>>}
    ELSE UNION {{<<item>> \o rest : rest \in ArrivalOrders(batch \ {item})} :
                   item \in batch}

\* every arrival order of every set of items with pairwise distinct ids
DistinctOrders == UNION {ArrivalOrders(batch) : batch \in DistinctItems}

\* the collection after the items of order were inserted one after the other
RECURSIVE InsertAll(_, _)
InsertAll(array, order) ==
    IF order = <<>> THEN array
    ELSE InsertAll(StoreInsert(array, Head(order)), Tail(order))

\* C39: whatever the collection holds, inserting a set of items with pairwise
\* distinct ids gives the same final collection in every arrival order (the
\* one that their arrival in the order of the ids gives)
C39_ArrivalOrderIrrelevant ==
    \A order \in DistinctOrders :
        InsertAll(messages, order) = InsertAll(messages, SortById(order))

\* C39 witness: the item with the smallest id arrived last, after two items
\* with greater ids, and the collection is the one that the arrival in the
\* order of the ids gives.
C39_Witness ==
    /\ storeLast.op = "insert"
    /\ Len(storeLast.before) = 2
    /\ storeLast.info.id < storeLast.before[1].id
    /\ messages = InsertAll(<<>>, messages)
    /\ messages = InsertAll(<<>>, storeLast.before \o <<storeLast.info>>)

(* Claims about the state of useCompactionState *)
\* C40: after every sequence of compaction events of any session, whenever
\* isCompacting is false the state is the default state: progress complete,
\* startedAt 0, isAutomatic false
C40_IdleIsDefault == ~csState.isCompacting => csState = DEFAULT_STATE

====
